---- MODULE Spec2Model ----
(***************************************************************************)
(* State-machine model of the EventBridge rule component                   *)
(* (src/rule/lambda_function.py).                                          *)
(*                                                                         *)
(* One invocation of lambda_handler is a run of the program counter pc     *)
(* from the preamble (Invoke) through the twelve decorated operations,   *)
(* in the order lambda_handler calls them, to eh.finish() (Finish).  The   *)
(* remote services (events, lambda, sns, sqs) are part of the state; the   *)
(* outcome of every remote call is drawn from the success case and the     *)
(* error codes the handlers distinguish.                                   *)
(***************************************************************************)
EXTENDS Integers, Sequences, FiniteSets, TLC

\* Python's None, for string-valued fields.
None == "None"

(***************************************************************************)
(* Bounds of the model.                                                    *)
(***************************************************************************)
\* invocations of lambda_handler in one behaviour
MaxInvocations == 2
\* remote calls that fail by injection in one behaviour
MaxFails == 1
\* failed entries in the response of one put_targets or remove_targets call
MaxFailedEntries == 2

(***************************************************************************)
(* Small universes of inputs.                                              *)
(***************************************************************************)
Names == {"foo", "bar"}
Descriptions == {None, "d1"}
TagKeys == {"a", "b"}
TagValues == {"1"}
Region == "us-east-1"
AccountNumber == "123"
DefaultBus == "default"

\* Resource handles, as the list of their ":"-separated segments.
LambdaArn == <<"arn", "aws", "lambda", Region, AccountNumber, "f1">>
SqsArn == <<"arn", "aws", "sqs", Region, AccountNumber, "q1">>
SnsArn == <<"arn", "aws", "sns", Region, AccountNumber, "s1">>
OtherArn == <<"arn", "aws", "states", Region, AccountNumber, "m1">>

\* Error codes a remote call of the events client can raise.
ErrorCodes == {"InternalException", "ConcurrentModificationException",
               "LimitExceededException", "ManagedRuleException",
               "ResourceNotFoundException", "InvalidEventPatternException"}
Outcomes == {"ok"} \cup ErrorCodes

(***************************************************************************)
(* Dictionaries are functions whose domain is the set of keys present.     *)
(***************************************************************************)
EmptyDict == [k \in {} |-> None]

Merge(a, b) ==
    [k \in DOMAIN a \cup DOMAIN b |-> IF k \in DOMAIN b THEN b[k] ELSE a[k]]

Restrict(d, keys) == [k \in DOMAIN d \cap keys |-> d[k]]

Get(d, k) == IF k \in DOMAIN d THEN d[k] ELSE None

\* extutil.remove_none_attributes: drop the keys whose value is None
remove_none_attributes(d) == Restrict(d, {k \in DOMAIN d : d[k] # None})

\* all partial maps from keys to vals
PartialMaps(keys, vals) == UNION {[s -> vals] : s \in SUBSET keys}

\* all sequences of distinct elements of s
RECURSIVE DistinctSeqs(_)
DistinctSeqs(s) ==
    {<<>>} \cup UNION {{<<x>> \o t : t \in DistinctSeqs(s \ {x})} : x \in s}

Range(q) == {q[i] : i \in DOMAIN q}

(***************************************************************************)
(* The desired configuration (component_def) and the attribute normaliser. *)
(***************************************************************************)
\* raw tag values of component_def: an int or a str
RawTagValues == {[int |-> 1]}

\* f"{value}"
FmtValue(v) ==
    IF DOMAIN v = {"int"}
    THEN CASE v.int = 1 -> "1" [] v.int = 2 -> "2" [] OTHER -> "n"
    ELSE v.str

\* json.dumps(event_pattern)
JsonDumps(p) == "json(" \o p \o ")"

\* [{"Key": f"{key}", "Value": f"{value}"} for key, value in tags.items()]
\* (the list is kept as the set of its items: no handler reads its order)
TagList(tags) == {[Key |-> k, Value |-> FmtValue(tags[k])] : k \in DOMAIN tags}

\* {item.get("Key"): item.get("Value") for item in items}
TagDict(items) ==
    [k \in {i.Key : i \in items} |-> (CHOOSE i \in items : i.Key = k).Value]

\* prev_state.get("props", {}).get("name") or cdef.get("name") or component_safe_name(...)
RuleName(prev, def) ==
    IF Get(prev, "name") # None THEN prev["name"]
    ELSE IF def.name # None THEN def.name
    ELSE "generated"

\* the attributes dictionary of lambda_handler: the core fields are a
\* dictionary of strings, Tags is empty when the key is removed, Targets is
\* the identifier-keyed mapping of component_def in insertion order
Attributes(prev, def) ==
    [core |-> remove_none_attributes(
                [Name |-> RuleName(prev, def),
                 ScheduleExpression |-> def.schedule_expression,
                 EventPattern |-> IF def.event_pattern # None
                                  THEN JsonDumps(def.event_pattern) ELSE None,
                 State |-> "ENABLED",
                 Description |-> def.description,
                 RoleArn |-> def.role_arn]),
     Tags |-> TagList(def.tags),
     Targets |-> def.targets]

(***************************************************************************)
(* The remote event-routing service, for one rule.                         *)
(***************************************************************************)
NoRule == [exists |-> FALSE, core |-> EmptyDict, tags |-> EmptyDict, targets |-> <<>>]

RuleArnOf(name) ==
    "arn:aws:events:" \o Region \o ":" \o AccountNumber \o ":rule/" \o name

\* the response of client.describe_rule
DescribeResponse(r) ==
    Merge(r.core, [Arn |-> RuleArnOf(r.core["Name"]), EventBusName |-> DefaultBus])

\* whether the rule called name exists remotely
Exists(r, name) == r.exists /\ r.core["Name"] = name

\* client.put_rule(**attrs): create, or replace the core attributes of, the
\* rule; Tags are applied to a rule that is created and ignored on an update
RemotePutRule(r, core, tags) ==
    [exists |-> TRUE,
     core |-> core,
     tags |-> IF Exists(r, core["Name"]) THEN r.tags ELSE TagDict(tags),
     targets |-> IF Exists(r, core["Name"]) THEN r.targets ELSE <<>>]

\* client.untag_resource(ResourceARN, TagKeys)
RemoteUntag(r, keys) == [r EXCEPT !.tags = Restrict(r.tags, DOMAIN r.tags \ keys)]

\* client.tag_resource(ResourceARN, Tags)
RemoteTag(r, tags) == [r EXCEPT !.tags = Merge(r.tags, tags)]

\* client.put_targets(Rule, Targets): upsert by Id, for the entries accepted
RemotePutTargets(r, entries) ==
    LET ids == {entries[i].Id : i \in DOMAIN entries}
        New(id) == entries[CHOOSE i \in DOMAIN entries : entries[i].Id = id]
        kept == [i \in DOMAIN r.targets |->
                    IF r.targets[i].Id \in ids THEN New(r.targets[i].Id)
                    ELSE r.targets[i]]
        old == {r.targets[i].Id : i \in DOMAIN r.targets}
    IN [r EXCEPT !.targets = kept \o SelectSeq(entries, LAMBDA e : e.Id \notin old)]

\* client.remove_targets(Rule, EventBusName, Ids), for the ids accepted
RemoteRemoveTargets(r, ids) ==
    [r EXCEPT !.targets = SelectSeq(r.targets, LAMBDA e : e.Id \notin ids)]

(***************************************************************************)
(* The extension handler eh: ops, props, links, state and the declared     *)
(* return.  ops is a dictionary in insertion order: the sequence of its    *)
(* (op, val) items.                                                        *)
(***************************************************************************)
FreshEh == [ops |-> <<>>, ret |-> "none", progress |-> 0, error |-> None,
            state |-> EmptyDict, props |-> EmptyDict, links |-> EmptyDict]

OpNames(e) == {e.ops[i].op : i \in DOMAIN e.ops}

HasOp(e, op) == op \in OpNames(e)

\* eh.ops.get(op), for an op that is present
OpVal(e, op) == e.ops[CHOOSE i \in DOMAIN e.ops : e.ops[i].op = op].val

\* eh.add_op(op, val): ops[op] = val
add_op(e, op, val) ==
    IF HasOp(e, op)
    THEN [e EXCEPT !.ops = [i \in DOMAIN e.ops |->
                               IF e.ops[i].op = op THEN [op |-> op, val |-> val]
                               ELSE e.ops[i]]]
    ELSE [e EXCEPT !.ops = Append(e.ops, [op |-> op, val |-> val])]

\* a completion that leaves the operation in the queue
complete_op_Kept(e, op) == e

\* eh.complete_op(op): ops.pop(op)
complete_op(e, op) == [e EXCEPT !.ops = SelectSeq(e.ops, LAMBDA x : x.op # op)]

add_state(e, d) == [e EXCEPT !.state = Merge(e.state, d)]
\* props that are not recorded
add_props_Dropped(e, d) == e

add_props(e, d) == [e EXCEPT !.props = Merge(e.props, d)]
add_links(e, d) == [e EXCEPT !.links = Merge(e.links, d)]

\* eh.retry_error(msg, progress): wait and try again
retry_error(e, msg, progress) ==
    [e EXCEPT !.ret = "retry", !.progress = progress, !.error = msg]

\* eh.perm_error(msg, progress): permanently fail the deployment
perm_error(e, msg, progress) ==
    [e EXCEPT !.ret = "perm", !.progress = progress, !.error = msg]

\* an except clause that asks for a retry
unexpected_error_Retried(e, msg) == retry_error(e, msg, 0)

\* the except clause of lambda_handler: eh.declare_return(200, 0, error_code=str(e))
unexpected_error(e, msg) ==
    [e EXCEPT !.ret = "error", !.progress = 0, !.error = msg]

\* extutil.handle_common_errors: an external classifier, which declares
\* either a retry or a permanent error (how == "retry" or "perm")
handle_common_errors(e, how, msg, progress) ==
    IF how = "retry" THEN retry_error(e, msg, progress)
    ELSE perm_error(e, msg, progress)

\* a decorator that looks only at the queue
Runnable_IgnoringReturn(e, op) == HasOp(e, op)

\* @ext(handler=eh, op=...): the function runs if its operation is present
\* and no return has been declared
Runnable(e, op) == e.ret = "none" /\ HasOp(e, op)

\* a decorator that completes the operation whatever was declared
AfterOp_AlwaysComplete(e, op) == complete_op(e, op)

\* @ext, after the function returned: the operation is completed unless a
\* return was declared
AfterOp(e, op) == IF e.ret = "none" THEN complete_op(e, op) ELSE e

gen_rule_link(region, rule_name, event_bus_name) ==
    "https://" \o region \o ".console.aws.amazon.com/events/home?region=" \o region
        \o "#/eventbus/" \o event_bus_name \o "/rules/" \o rule_name

(***************************************************************************)
(* The state.                                                              *)
(***************************************************************************)
VARIABLES
    cdef,         \* event["component_def"], the desired configuration
    prev_state,   \* event["prev_state"]["props"], empty when there is none
    event_op,     \* event["op"]
    retrying,     \* whether event["pass_back_data"] is present
    eh,           \* the extension handler
    pc,           \* the position of lambda_handler
    rule,         \* the remote rule
    fn_policy,    \* the statement ids of the function's resource policy
    sns_policy,   \* the topic's access policy
    sqs_policy,   \* the queue's access policy
    response,     \* what the last invocation returned
    trace,        \* the operations run in this attempt, with their remote calls
    log,          \* the op and the outcome of the invocations that returned
    invocations,  \* invocations so far
    fails         \* injected remote failures so far

vars == <<cdef, prev_state, event_op, retrying, eh, pc, rule, fn_policy,
          sns_policy, sqs_policy, response, trace, log, invocations, fails>>

\* a handler that calls the permission propagation and put_targets before
\* remove_targets
OpOrder_PutFirst == <<"get_rule", "delete_rule", "create_rule", "update_rule",
                      "remove_tags", "set_tags", "add_permissions_for_targets",
                      "put_targets", "remove_targets", "add_lambda_permissions",
                      "add_sns_permissions", "add_sqs_permissions">>

\* the order in which lambda_handler calls the decorated operations
OpOrder == <<"get_rule", "delete_rule", "create_rule", "update_rule",
             "remove_tags", "set_tags", "remove_targets", "put_targets",
             "add_permissions_for_targets", "add_lambda_permissions",
             "add_sns_permissions", "add_sqs_permissions">>

PosOf(op) == CHOOSE i \in DOMAIN OpOrder : OpOrder[i] = op


\* a remote call and what the remote answered
Call(api, out) == [api |-> api, out |-> out]

\* a batch call answered with the failed entries failed (target id to ErrorCode)
BatchCall(api, failed) == [api |-> api, out |-> "FailedEntries", failed |-> failed]

NoResponse == [kind |-> "none", progress |-> 0, error |-> None,
               props |-> EmptyDict, links |-> EmptyDict]

(***************************************************************************)
(* get_rule and its three facets.                                          *)
(***************************************************************************)
\* a diff that removes no key
TagsToRemove_None(formatted_tags, current_tags) == {}

\* the keys of current_tags that are not desired
TagsToRemove(formatted_tags, current_tags) ==
    {k \in DOMAIN current_tags : k \notin DOMAIN formatted_tags}

\* every desired pair, changed or not
TagsToAdd_All(formatted_tags, current_tags) == formatted_tags

\* the desired pairs whose value differs from current_tags.get(k)
TagsToAdd(formatted_tags, current_tags) ==
    Restrict(formatted_tags,
             {k \in DOMAIN formatted_tags : formatted_tags[k] # Get(current_tags, k)})

\* a comparison with the whole describe_rule response
CoreFacet_WholeResponse(e, attributes, resp) ==
    IF attributes.core # resp THEN add_op(e, "update_rule", TRUE) ELSE e

\* a comparison with every core field of the response, set by the user or not
CoreFacet_CoreFields(e, attributes, resp) ==
    LET comparable_response ==
            Restrict(resp, {"Name", "ScheduleExpression", "EventPattern", "State",
                            "Description", "RoleArn"})
    IN IF attributes.core # comparable_response
       THEN add_op(e, "update_rule", TRUE) ELSE e

\* "Setup rule update"
CoreFacet(e, attributes, resp) ==
    LET comparable_attributes == attributes.core
        comparable_response == Restrict(resp, DOMAIN comparable_attributes)
    IN IF comparable_attributes # comparable_response
       THEN add_op(e, "update_rule", TRUE) ELSE e

\* "Setup tags update", the listing having succeeded
TagDiff(e, attributes, current_tags) ==
    IF attributes.Tags # {}
    THEN LET formatted_tags == TagDict(attributes.Tags)
             remove_tags == TagsToRemove(formatted_tags, current_tags)
             add_tags == TagsToAdd(formatted_tags, current_tags)
             e1 == IF remove_tags # {} THEN add_op(e, "remove_tags", remove_tags) ELSE e
         IN IF formatted_tags = current_tags THEN e
            ELSE IF DOMAIN add_tags # {} THEN add_op(e1, "set_tags", add_tags) ELSE e1
    ELSE IF DOMAIN current_tags # {}
         THEN add_op(e, "remove_tags", DOMAIN current_tags) ELSE e

\* a tag facet whose retries carry messages of their own
TagFacet_OwnMarker(e, attributes, current_tags, t, how) ==
    CASE t = "ok" -> TagDiff(e, attributes, current_tags)
      [] t = "ResourceNotFoundException" -> retry_error(e, "Tags Not Found -- Retrying", 20)
      [] t = "InternalException" -> retry_error(e, "Tags Internal Error -- Retrying", 20)
      [] OTHER -> handle_common_errors(e, how, "Error Updating Rule Tags", 20)

\* "Setup tags update": t is the outcome of list_tags_for_resource
TagFacet(e, attributes, current_tags, t, how) ==
    CASE t = "ok" -> TagDiff(e, attributes, current_tags)
      [] t = "ResourceNotFoundException" -> retry_error(e, "Rule Not Found -- Retrying", 20)
      [] t = "InternalException" -> retry_error(e, "AWS Internal Error -- Retrying", 20)
      [] OTHER -> handle_common_errors(e, how, "Error Updating Rule Tags", 20)

\* the keys of a desired target that make up its HTTP overrides and its
\* retry policy
HttpKeys == {"http_path_parameter_values", "http_header_parameters",
             "http_query_string_parameters"}
RetryKeys == {"maximum_retry_attempts", "maximum_event_age_in_seconds"}

\* item.get(k) if item.get(k) else None: None stands for every falsy value
Truthy(item, k) == Get(item, k)

\* the HttpParameters value, built when a key of HttpKeys is in item
HttpParameters(item) ==
    remove_none_attributes(
        [PathParameterValues |-> Truthy(item, "http_path_parameter_values"),
         HeaderParameters |-> Truthy(item, "http_header_parameters"),
         QueryStringParameters |-> Truthy(item, "http_query_string_parameters")])

\* the RetryPolicy value, built when a key of RetryKeys is in item
RetryPolicy(item) ==
    remove_none_attributes(
        [MaximumRetryAttempts |-> Get(item, "maximum_retry_attempts"),
         MaximumEventAgeInSeconds |-> Get(item, "maximum_event_age_in_seconds")])

\* the wire format of one desired target: the outer remove_none_attributes
\* drops the scalar fields that are None and the blocks that were not built
FormatTarget(item) ==
    LET scalars == remove_none_attributes(
                       [Id |-> Get(item, "id"), Arn |-> Get(item, "arn"),
                        RoleArn |-> Get(item, "role_arn"),
                        Input |-> Get(item, "input"),
                        InputPath |-> Get(item, "input_path")])
        http == IF HttpKeys \cap DOMAIN item # {}
                THEN [HttpParameters |-> HttpParameters(item)] ELSE EmptyDict
        dlq == IF Truthy(item, "dead_letter_queue_arn") # None
               THEN [DeadLetterConfig |-> [Arn |-> item["dead_letter_queue_arn"]]]
               ELSE EmptyDict
        retry == IF RetryKeys \cap DOMAIN item # {}
                 THEN [RetryPolicy |-> RetryPolicy(item)] ELSE EmptyDict
    IN Merge(Merge(Merge(scalars, http), dlq), retry)

\* a diff that puts only the desired targets the rule does not have
TargetDiff_OnlyNew(e, attributes, relevant_targets) ==
    LET desired == {attributes.Targets[i].id : i \in DOMAIN attributes.Targets}
        observed == {relevant_targets[i].Id : i \in DOMAIN relevant_targets}
        stale == SelectSeq(relevant_targets, LAMBDA x : x.Id \notin desired)
        remove_targets == [i \in DOMAIN stale |-> stale[i].Id]
        put_targets == SelectSeq(attributes.Targets, LAMBDA x : x.id \notin observed)
        formatted_put_targets == [i \in DOMAIN put_targets |-> FormatTarget(put_targets[i])]
        e1 == IF remove_targets # <<>>
              THEN add_op(e, "remove_targets", remove_targets) ELSE e
    IN IF formatted_put_targets # <<>>
       THEN add_op(e1, "put_targets", formatted_put_targets) ELSE e1

\* "Setup targets update", the listing having succeeded
TargetDiff(e, attributes, relevant_targets) ==
    LET desired == {attributes.Targets[i].id : i \in DOMAIN attributes.Targets}
        remove_targets == [i \in DOMAIN SelectSeq(relevant_targets,
                                                  LAMBDA x : x.Id \notin desired) |->
                              SelectSeq(relevant_targets,
                                        LAMBDA x : x.Id \notin desired)[i].Id]
        put_targets == SelectSeq(attributes.Targets,
                                 LAMBDA x : x.id \notin Range(remove_targets))
        formatted_put_targets == [i \in DOMAIN put_targets |-> FormatTarget(put_targets[i])]
        e1 == IF remove_targets # <<>>
              THEN add_op(e, "remove_targets", remove_targets) ELSE e
    IN IF formatted_put_targets # <<>>
       THEN add_op(e1, "put_targets", formatted_put_targets) ELSE e1

\* a target facet that is skipped once a return has been declared
TargetFacet_SkippedAfterFailure(e, attributes, relevant_targets, g, how) ==
    IF e.ret # "none" THEN e
    ELSE IF g = "ok" THEN TargetDiff(e, attributes, relevant_targets)
    ELSE handle_common_errors(e, how, "Error Getting Rule Targets", 25)

\* "Setup targets update": g is the outcome of list_targets_by_rule
TargetFacet(e, attributes, relevant_targets, g, how) ==
    CASE g = "ok" -> TargetDiff(e, attributes, relevant_targets)
      [] g = "ResourceNotFoundException" -> retry_error(e, "Rule Not Found -- Retrying", 25)
      [] g = "InternalException" -> retry_error(e, "AWS Internal Error -- Retrying", 25)
      [] OTHER -> handle_common_errors(e, how, "Error Getting Rule Targets", 25)

\* what the remote answers to describe_rule(Name=name), d being injected
DescribeOutcome(r, name, d) ==
    IF d # "ok" THEN d
    ELSE IF Exists(r, name) THEN "ok" ELSE "ResourceNotFoundException"

\* the body of get_rule: the handler afterwards and the remote calls made
get_rule(e, attributes, r, prev, d, t, g, how) ==
    LET existing_rule_name == Get(prev, "name")
        dres == DescribeOutcome(r, existing_rule_name, d)
    IN IF existing_rule_name = None
       THEN [eh |-> add_op(e, "create_rule", TRUE), calls |-> <<>>]
       ELSE IF dres \in {"ResourceNotFoundException", "InternalException"}
       THEN [eh |-> add_op(e, "create_rule", TRUE),
             calls |-> <<Call("describe_rule", dres)>>]
       ELSE IF dres # "ok"
       THEN [eh |-> retry_error(e, "Get Rule Error", 10),
             calls |-> <<Call("describe_rule", dres)>>]
       ELSE LET resp == DescribeResponse(r)
                ident == [arn |-> resp["Arn"], name |-> resp["Name"],
                          role_arn |-> Get(resp, "RoleArn"),
                          event_bus_name |-> resp["EventBusName"]]
                e1 == add_state(e, Merge(ident, [region |-> Region]))
                e2 == add_props(e1, ident)
                e3 == add_links(e2, [Rule |-> gen_rule_link(Region, ident.name,
                                                            ident.event_bus_name)])
                e4 == CoreFacet(e3, attributes, resp)
                e5 == TagFacet(e4, attributes, r.tags, t, how)
                e6 == TargetFacet(e5, attributes, r.targets, g, how)
            IN [eh |-> e6,
                calls |-> <<Call("describe_rule", dres),
                            Call("list_tags_for_resource", t),
                            Call("list_targets_by_rule", g)>>]

(***************************************************************************)
(* The rule operations.  Each body yields the handler afterwards (eh), the *)
(* remote rule afterwards (rule), the remote calls made (calls) and the    *)
(* exception that escaped the body (raised, None when none did).           *)
(***************************************************************************)
Result(e, r, calls, raised) ==
    [eh |-> e, rule |-> r, calls |-> calls, raised |-> raised]

\* what eh.state[k] raises when one of the keys is missing
MissingKey(e, keys) == keys \ DOMAIN e.state # {}

\* the except clauses shared by create_rule and update_rule (progress 20)
PutRuleError(e, o, how, msg) ==
    CASE o \in {"InvalidEventPatternException", "LimitExceededException",
                "ManagedRuleException", "ResourceNotFoundException"} ->
             perm_error(e, o, 20)
      [] o = "ConcurrentModificationException" ->
             retry_error(e, "Concurrent modification of Rule", 20)
      [] o = "InternalException" ->
             retry_error(e, "AWS Internal Error -- Retrying", 20)
      [] OTHER -> handle_common_errors(e, how, msg, 20)

\* the identity recorded by create_rule and update_rule after put_rule
Identity(e, rule_name, rule_role_arn, rule_event_bus_name) ==
    LET ident == [arn |-> RuleArnOf(rule_name), name |-> rule_name,
                  role_arn |-> rule_role_arn,
                  event_bus_name |-> rule_event_bus_name]
        e1 == add_state(e, Merge(ident, [region |-> Region]))
        e2 == add_props(e1, ident)
    IN add_links(e2, [Rule |-> gen_rule_link(Region, rule_name, rule_event_bus_name)])

\* a truthy value, or the alternative: Python's "a or b"
Or(a, b) == IF a # None THEN a ELSE b

create_rule(e, attributes, r, o, how) ==
    IF o = "ok"
    THEN Result(Identity(e, Get(attributes.core, "Name"),
                         Get(attributes.core, "RoleArn"),
                         Or(Get(attributes.core, "EventBusName"), DefaultBus)),
                RemotePutRule(r, attributes.core, attributes.Tags),
                <<Call("put_rule", o)>>, None)
    ELSE Result(PutRuleError(e, o, how, "Error Creating Rule"), r,
                <<Call("put_rule", o)>>, None)

update_rule(e, attributes, r, prev, o, how) ==
    IF MissingKey(e, {"name", "role_arn", "event_bus_name"})
    THEN Result(e, r, <<>>, "KeyError")
    ELSE IF o = "ok"
    THEN Result(Identity(e, Or(Get(attributes.core, "Name"), e.state["name"]),
                         Or(Get(attributes.core, "RoleArn"), e.state["role_arn"]),
                         Or(Get(attributes.core, "EventBusName"),
                            Or(e.state["event_bus_name"], Get(prev, "event_bus_name")))),
                RemotePutRule(r, attributes.core, {}),
                <<Call("put_rule", o)>>, None)
    ELSE Result(PutRuleError(e, o, how, "Error Creating Rule"), r,
                <<Call("put_rule", o)>>, None)

\* the except clauses shared by remove_tags and set_tags
TagError(e, o, how, msg, progress) ==
    CASE o = "ConcurrentModificationException" ->
             retry_error(e, "Concurrent modification of Rule", progress)
      [] o \in {"ManagedRuleException", "ResourceNotFoundException"} ->
             perm_error(e, o, progress)
      [] o = "InternalException" ->
             retry_error(e, "AWS Internal Error -- Retrying", progress)
      [] OTHER -> handle_common_errors(e, how, msg, progress)

\* what the remote answers to a call on the rule, o being injected
RuleCallOutcome(r, o) ==
    IF o # "ok" THEN o ELSE IF r.exists THEN "ok" ELSE "ResourceNotFoundException"

remove_tags(e, r, o, how) ==
    IF MissingKey(e, {"arn"}) THEN Result(e, r, <<>>, "KeyError")
    ELSE IF RuleCallOutcome(r, o) = "ok"
    THEN Result(e, RemoteUntag(r, OpVal(e, "remove_tags")), <<Call("untag_resource", RuleCallOutcome(r, o))>>, None)
    ELSE Result(TagError(e, RuleCallOutcome(r, o), how, "Error Removing Rule Tags", 80),
                r, <<Call("untag_resource", RuleCallOutcome(r, o))>>, None)

set_tags(e, r, o, how) ==
    IF MissingKey(e, {"arn"}) THEN Result(e, r, <<>>, "KeyError")
    ELSE IF RuleCallOutcome(r, o) = "ok"
    THEN Result(e, RemoteTag(r, OpVal(e, "set_tags")), <<Call("tag_resource", RuleCallOutcome(r, o))>>, None)
    ELSE Result(TagError(e, RuleCallOutcome(r, o), how, "Error Adding Tags", 90),
                r, <<Call("tag_resource", RuleCallOutcome(r, o))>>, None)

\* the except clauses shared by put_targets and remove_targets
TargetError(e, o, how) ==
    CASE o = "ConcurrentModificationException" ->
             retry_error(e, "Concurrent modification of Target", 80)
      [] o \in {"ManagedRuleException", "LimitExceededException",
                "ResourceNotFoundException"} ->
             perm_error(e, o, 80)
      [] o = "InternalException" ->
             retry_error(e, "AWS Internal Error -- Retrying", 80)
      [] OTHER -> handle_common_errors(e, how, "Error Updating Rule Targets", 80)

\* whether the local name e of put_targets and remove_targets is bound where
\* the FailedEntries branches evaluate str(e): it is bound only by an except
\* clause, and none has run there
ExceptionNameBound == FALSE

\* a branch in which the exception name is bound, so that the retry or the
\* permanent error is declared and put_targets goes on to the propagation
PutTargetsFailed_Declared(e, failed) ==
    IF \A id \in DOMAIN failed : failed[id] = "ManagedRuleException"
    THEN [eh |-> perm_error(e, "ManagedRuleException", 80), raised |-> None]
    ELSE [eh |-> retry_error(e, "Retrying Errors", 80), raised |-> None]

\* the FailedEntryCount > 0 branch of put_targets; failed maps the failed
\* target ids to their ErrorCode
PutTargetsFailed(e, failed) ==
    LET retry_codes == {"ResourceNotFoundException", "InternalException",
                        "ConcurrentModificationException", "LimitExceededException"}
    IN IF ~ExceptionNameBound THEN [eh |-> e, raised |-> "UnboundLocalError"]
       ELSE IF \A id \in DOMAIN failed : failed[id] \notin retry_codes
       THEN [eh |-> perm_error(e, "str(e)", 80), raised |-> None]
       ELSE [eh |-> retry_error(e, "Retrying Errors", 80), raised |-> None]

put_targets(e, r, o, failed, how) ==
    LET payload == OpVal(e, "put_targets")
        accepted == SelectSeq(payload, LAMBDA x : x.Id \notin DOMAIN failed)
        part == PutTargetsFailed(e, failed)
    IN IF MissingKey(e, {"name"}) THEN Result(e, r, <<>>, "KeyError")
       ELSE IF RuleCallOutcome(r, o) # "ok"
       THEN Result(TargetError(e, RuleCallOutcome(r, o), how), r,
                   <<Call("put_targets", RuleCallOutcome(r, o))>>, None)
       ELSE IF DOMAIN failed # {} /\ part.raised # None
       THEN Result(part.eh, RemotePutTargets(r, accepted),
                   <<BatchCall("put_targets", failed)>>, part.raised)
       ELSE Result(add_op(IF DOMAIN failed # {} THEN part.eh ELSE e,
                          "add_permissions_for_targets", payload),
                   RemotePutTargets(r, accepted),
                   <<IF DOMAIN failed # {} THEN BatchCall("put_targets", failed)
                     ELSE Call("put_targets", "ok")>>,
                   None)

\* the FailedEntryCount > 0 branch of remove_targets
RemoveTargetsFailed(e, failed) ==
    IF ~ExceptionNameBound THEN [eh |-> e, raised |-> "UnboundLocalError"]
    ELSE IF \A id \in DOMAIN failed : failed[id] = "ResourceNotFoundException"
    THEN [eh |-> e, raised |-> None]
    ELSE IF \A id \in DOMAIN failed : failed[id] = "ManagedRuleException"
    THEN [eh |-> perm_error(e, "str(e)", 80), raised |-> None]
    ELSE [eh |-> retry_error(e, "Retrying Errors", 80), raised |-> None]

remove_targets(e, r, o, failed, how) ==
    LET payload == OpVal(e, "remove_targets")
        accepted == Range(payload) \ DOMAIN failed
        part == RemoveTargetsFailed(e, failed)
    IN IF MissingKey(e, {"name", "event_bus_name"}) THEN Result(e, r, <<>>, "KeyError")
       ELSE IF RuleCallOutcome(r, o) # "ok"
       THEN Result(TargetError(e, RuleCallOutcome(r, o), how), r,
                   <<Call("remove_targets", RuleCallOutcome(r, o))>>, None)
       ELSE Result(IF DOMAIN failed # {} THEN part.eh ELSE e,
                   RemoteRemoveTargets(r, accepted),
                   <<IF DOMAIN failed # {} THEN BatchCall("remove_targets", failed)
                     ELSE Call("remove_targets", "ok")>>,
                   IF DOMAIN failed # {} THEN part.raised ELSE None)

\* a delete that fails permanently on a rule that is not there
delete_rule_NotFoundFails(e, r, o, how) ==
    LET out == IF MissingKey(e, {"name"}) THEN "KeyError"
               ELSE IF o # "ok" THEN o
               ELSE IF Exists(r, e.state["name"]) THEN "ok"
               ELSE "ResourceNotFoundException"
    IN CASE out = "KeyError" -> Result(e, r, <<>>, "KeyError")
         [] out = "ok" -> Result(e, NoRule, <<Call("delete_rule", out)>>, None)
         [] OTHER -> Result(perm_error(e, out, 80), r, <<Call("delete_rule", out)>>, None)

delete_rule(e, r, o, how) ==
    LET out == IF MissingKey(e, {"name"}) THEN "KeyError"
               ELSE IF o # "ok" THEN o
               ELSE IF Exists(r, e.state["name"]) THEN "ok"
               ELSE "ResourceNotFoundException"
    IN CASE out = "KeyError" -> Result(e, r, <<>>, "KeyError")
         [] out = "ok" -> Result(e, NoRule, <<Call("delete_rule", out)>>, None)
         [] out = "ConcurrentModificationException" ->
                Result(retry_error(e, "Concurrent modification of Rule", 80), r,
                       <<Call("delete_rule", out)>>, None)
         [] out = "ManagedRuleException" ->
                Result(perm_error(e, out, 80), r, <<Call("delete_rule", out)>>, None)
         [] out = "InternalException" ->
                Result(retry_error(e, "AWS Internal Error -- Retrying", 80), r,
                       <<Call("delete_rule", out)>>, None)
         [] out = "ResourceNotFoundException" -> Result(e, r, <<Call("delete_rule", out)>>, None)
         [] OTHER -> Result(handle_common_errors(e, how, "Error Deleting Rule", 80), r,
                            <<Call("delete_rule", out)>>, None)

(***************************************************************************)
(* The permission propagator.                                              *)
(***************************************************************************)
\* arn.startswith("arn:aws:<service>"), on the segments of the handle
analyze_type_of_arn(arn) ==
    IF Len(arn) >= 3 /\ arn[1] = "arn" /\ arn[2] = "aws"
                     /\ arn[3] \in {"lambda", "sns", "sqs"}
    THEN arn[3] ELSE "not_supported_or_unnecessary"

\* a grouping that takes every target for every kind
ArnsOfType_All(targets, type) == [i \in DOMAIN targets |-> targets[i].Arn]

\* the Arn of the targets of the given kind, in payload order
ArnsOfType(targets, type) ==
    LET sel == SelectSeq(targets, LAMBDA x : analyze_type_of_arn(x.Arn) = type)
    IN [i \in DOMAIN sel |-> sel[i].Arn]

add_permissions_for_targets(e) ==
    LET targets == OpVal(e, "add_permissions_for_targets")
        lambdas == ArnsOfType(targets, "lambda")
        topics == ArnsOfType(targets, "sns")
        queues == ArnsOfType(targets, "sqs")
        e1 == IF lambdas # <<>> THEN add_op(e, "add_lambda_permissions", lambdas) ELSE e
        e2 == IF topics # <<>> THEN add_op(e1, "add_sns_permissions", topics) ELSE e1
        e3 == IF queues # <<>> THEN add_op(e2, "add_sqs_permissions", queues) ELSE e2
    IN IF MissingKey(e, {"name", "event_bus_name"})
       THEN [eh |-> e, raised |-> "KeyError"]
       ELSE [eh |-> e3, raised |-> None]

\* what lambda_client.add_permission answers for a statement id: a second
\* statement with the same id is a conflict; o is injected
AddPermissionOutcome(sids, sid, o) ==
    IF o # "ok" THEN o
    ELSE IF sid \in Range(sids) THEN "ResourceConflictException" ELSE "ok"

\* a handling that re-raises the conflict too
LambdaGrant_ConflictRaises(out) == IF out = "ok" THEN "granted" ELSE "raise"

\* the handling of one add_permission call in add_lambda_permissions:
\* "granted", "pass" (the conflict is swallowed) or "raise"
LambdaGrant(out) ==
    CASE out = "ok" -> "granted"
      [] out = "ResourceConflictException" -> "pass"
      [] OTHER -> "raise"

\* the loop of add_lambda_permissions from index i on; the call for the
\* function at index at gets the injected outcome o
RECURSIVE LambdaLoop(_, _, _, _, _, _)
LambdaLoop(lambdas, i, pol, sid, o, at) ==
    IF i > Len(lambdas) THEN [policy |-> pol, raised |-> None, calls |-> <<>>]
    ELSE LET l == lambdas[i]
             out == AddPermissionOutcome(pol[l], sid, IF i = at THEN o ELSE "ok")
             how == LambdaGrant(out)
             pol1 == IF how = "granted"
                     THEN [pol EXCEPT ![l] = Append(pol[l], sid)] ELSE pol
             rest == LambdaLoop(lambdas, i + 1, pol1, sid, o, at)
         IN IF how = "raise"
            THEN [policy |-> pol, raised |-> out,
                  calls |-> <<Call("add_permission", out)>>]
            ELSE [rest EXCEPT !.calls = <<Call("add_permission", out)>> \o rest.calls]

add_lambda_permissions(e, pol, o, at) ==
    IF MissingKey(e, {"name", "arn"})
    THEN [policy |-> pol, raised |-> "KeyError", calls |-> <<>>]
    ELSE LambdaLoop(OpVal(e, "add_lambda_permissions"), 1, pol,
                    "EB_INVOKE_" \o e.state["name"], o, at)

\* a destination that has no access policy
NoPolicy == [present |-> FALSE, doc |-> EmptyDict]

\* json.loads(response.get("Attributes", {}).get("Policy", "{}"))
LoadPolicy(p) == IF p.present THEN p.doc ELSE EmptyDict

\* a grant that is appended to whatever is there
WithStatement_Appended(statements, statement) == Append(statements, statement)

\* the statements other than the grant's, then the grant's
WithStatement(statements, statement) ==
    Append(SelectSeq(statements, LAMBDA x : x.Sid # statement.Sid), statement)

SnsStatement(t) ==
    [Sid |-> "PublishEventsToMyTopic", Effect |-> "Allow",
     Principal |-> "events.amazonaws.com", Action |-> "sns:Publish", Resource |-> t]

\* the loop of add_sns_permissions: existing_policy.get("Statement") is None
\* when the policy has no statement list, and iterating it raises
RECURSIVE SnsLoop(_, _, _, _, _)
SnsLoop(topics, i, pol, o, at) ==
    IF i > Len(topics) THEN [policy |-> pol, raised |-> None, calls |-> <<>>]
    ELSE LET t == topics[i]
             existing_policy == LoadPolicy(pol[t])
             new == Merge(existing_policy,
                          [Statement |-> WithStatement(existing_policy["Statement"],
                                                       SnsStatement(t))])
             pol1 == [pol EXCEPT ![t] = [present |-> TRUE, doc |-> new]]
             rest == SnsLoop(topics, i + 1, pol1, o, at)
             skip == SnsLoop(topics, i + 1, pol, o, at)
         IN IF i = at /\ o = "ResourceConflictException"
            THEN [skip EXCEPT !.calls = <<Call("get_topic_attributes", o)>> \o skip.calls]
            ELSE IF i = at /\ o # "ok"
            THEN [policy |-> pol, raised |-> o,
                  calls |-> <<Call("get_topic_attributes", o)>>]
            ELSE IF "Statement" \notin DOMAIN existing_policy
            THEN [policy |-> pol, raised |-> "TypeError",
                  calls |-> <<Call("get_topic_attributes", "ok")>>]
            ELSE [rest EXCEPT !.calls = <<Call("get_topic_attributes", "ok"),
                                          Call("set_topic_attributes", "ok")>>
                                            \o rest.calls]

add_sns_permissions(e, pol, o, at) ==
    SnsLoop(OpVal(e, "add_sns_permissions"), 1, pol, o, at)

SqsStatement(q, rule_arn, rule_name) ==
    [Sid |-> "AWSEvents_" \o rule_name, Effect |-> "Allow",
     Principal |-> "events.amazonaws.com", Action |-> "sqs:SendMessage",
     Resource |-> q, Condition |-> rule_arn]

\* the loop of add_sqs_permissions: existing_policy.get("Statement", [])
RECURSIVE SqsLoop(_, _, _, _, _, _, _)
SqsLoop(queues, i, pol, rule_arn, rule_name, o, at) ==
    IF i > Len(queues) THEN [policy |-> pol, raised |-> None, calls |-> <<>>]
    ELSE LET q == queues[i]
             existing_policy == LoadPolicy(pol[q])
             statements == IF "Statement" \in DOMAIN existing_policy
                           THEN existing_policy["Statement"] ELSE <<>>
             new == Merge(existing_policy,
                          [Statement |-> WithStatement(statements,
                                             SqsStatement(q, rule_arn, rule_name))])
             pol1 == [pol EXCEPT ![q] = [present |-> TRUE, doc |-> new]]
             rest == SqsLoop(queues, i + 1, pol1, rule_arn, rule_name, o, at)
             skip == SqsLoop(queues, i + 1, pol, rule_arn, rule_name, o, at)
         IN IF Len(q) < 6
            THEN [policy |-> pol, raised |-> "IndexError", calls |-> <<>>]
            ELSE IF i = at /\ o = "ResourceConflictException"
            THEN [skip EXCEPT !.calls = <<Call("get_queue_url", o)>> \o skip.calls]
            ELSE IF i = at /\ o # "ok"
            THEN [policy |-> pol, raised |-> o, calls |-> <<Call("get_queue_url", o)>>]
            ELSE [rest EXCEPT !.calls = <<Call("get_queue_url", "ok"),
                                          Call("get_queue_attributes", "ok"),
                                          Call("set_queue_attributes", "ok")>> \o rest.calls]

add_sqs_permissions(e, pol, account_number, o, at) ==
    IF MissingKey(e, {"region", "name", "event_bus_name"})
    THEN [policy |-> pol, raised |-> "KeyError", calls |-> <<>>]
    ELSE SqsLoop(OpVal(e, "add_sqs_permissions"), 1, pol,
                 "arn:aws:events:" \o e.state["region"] \o ":" \o account_number
                     \o ":rule/" \o e.state["event_bus_name"] \o "/" \o e.state["name"],
                 e.state["name"], o, at)

(***************************************************************************)
(* Initial states: a desired configuration, and either no previous         *)
(* deployment or a previous deployment of the rule "foo", whose remote     *)
(* rule may have any core attributes, tags and targets, or be gone.        *)
(***************************************************************************)
Target(id, arn) == [id |-> id, arn |-> arn]

DesiredTags == PartialMaps({"a"}, RawTagValues)
ObservedTags == PartialMaps(TagKeys, TagValues)

DesiredTargets ==
    {<<>>, <<Target("t1", LambdaArn)>>,
     <<Target("t1", LambdaArn), Target("t2", SnsArn), Target("t3", SqsArn),
       Target("t4", OtherArn)>>}

ObservedTargets ==
    {<<>>, <<FormatTarget(Target("t1", LambdaArn))>>,
     <<FormatTarget(Target("t1", LambdaArn)), FormatTarget(Target("t9", OtherArn))>>}

Configs ==
    [name : Names, schedule_expression : {None}, event_pattern : {None},
     description : Descriptions, role_arn : {None},
     tags : DesiredTags, targets : DesiredTargets]

PrevProps(name) ==
    [arn |-> RuleArnOf(name), name |-> name, role_arn |-> None,
     event_bus_name |-> DefaultBus]

RemoteRules(name, descriptions, tagmaps, targetlists) ==
    {[exists |-> TRUE,
      core |-> remove_none_attributes(
                   [Name |-> name, State |-> "ENABLED", Description |-> d]),
      tags |-> t, targets |-> g] :
        d \in descriptions, t \in tagmaps, g \in targetlists}

ForeignStatement == [Sid |-> "other", Effect |-> "Allow"]

InitHandler ==
    /\ event_op = "upsert"
    /\ retrying = FALSE
    /\ eh = FreshEh
    /\ pc = "idle"
    /\ fn_policy = [l \in {LambdaArn} |-> <<>>]
    /\ sns_policy = [t \in {SnsArn} |->
                        [present |-> TRUE,
                         doc |-> [Version |-> "2008-10-17",
                                  Statement |-> <<ForeignStatement>>]]]
    /\ sqs_policy = [q \in {SqsArn} |-> NoPolicy]
    /\ response = NoResponse
    /\ trace = <<>>
    /\ log = <<>>

Init ==
    /\ cdef \in Configs
    /\ \/ prev_state = EmptyDict /\ rule = NoRule
       \/ /\ prev_state = PrevProps("foo")
          /\ rule \in RemoteRules("foo", Descriptions, ObservedTags, ObservedTargets)
                        \cup {NoRule}
    /\ InitHandler
    /\ invocations = 0
    /\ fails = 0

(***************************************************************************)
(* Initial states for the diff of get_rule: an existing rule and a desired *)
(* configuration drawn from larger sets of tags and targets, with one      *)
(* invocation left and no remote failure.                                  *)
(***************************************************************************)
DiffRawTagValues == {[int |-> 1], [str |-> "1"], [str |-> "2"]}
DiffDesiredTags == PartialMaps({"a", "b"}, DiffRawTagValues)
DiffObservedTags == PartialMaps({"a", "b", "c"}, {"1", "2"})

TargetArn(id) ==
    CASE id = "t1" -> LambdaArn [] id = "t2" -> SnsArn [] id = "t3" -> SqsArn
      [] OTHER -> OtherArn

DiffDesiredTargets ==
    {[i \in DOMAIN q |-> Target(q[i], TargetArn(q[i]))] :
        q \in DistinctSeqs({"t1", "t2"}) \cup {<<"t3">>}}

DiffObservedTargets ==
    {[i \in DOMAIN q |-> FormatTarget(Target(q[i], TargetArn(q[i])))] :
        q \in DistinctSeqs({"t1", "t3"})}

InitDiff ==
    /\ cdef \in [name : {"foo"}, schedule_expression : {None}, event_pattern : {None},
                  description : Descriptions, role_arn : {None},
                  tags : DiffDesiredTags, targets : DiffDesiredTargets]
    /\ prev_state = PrevProps("foo")
    /\ rule \in RemoteRules("foo", {None}, DiffObservedTags, DiffObservedTargets)
                    \cup {NoRule}
    /\ InitHandler
    /\ invocations = MaxInvocations - 1
    /\ fails = MaxFails

(***************************************************************************)
(* Initial states for the targets and their destinations.  Either an       *)
(* existing or absent rule and a desired configuration whose targets are   *)
(* two functions, a topic, a queue and a target of another kind, the topic *)
(* and the queue having any of several access policies; or an existing     *)
(* rule and one desired target with any optional fields, set or null.      *)
(***************************************************************************)
LambdaArn2 == <<"arn", "aws", "lambda", Region, AccountNumber, "f2">>

MixedTargets ==
    <<Target("t1", LambdaArn), Target("t2", SnsArn), Target("t5", LambdaArn2),
      Target("t3", SqsArn), Target("t4", OtherArn)>>

\* the optional keys of a desired target, and their values: None is a key
\* that is present with a null or empty value
OptionalKeys == {"role_arn", "input", "http_path_parameter_values",
                 "http_header_parameters", "dead_letter_queue_arn",
                 "maximum_retry_attempts", "maximum_event_age_in_seconds"}
OptionalValues == {None, "v"}

RichTargets ==
    {<<Merge(Target("t4", OtherArn), opts)>> :
        opts \in PartialMaps(OptionalKeys, OptionalValues)}

ForeignStatement2 == [Sid |-> "other2", Effect |-> "Deny"]

\* the access policies of a destination: none, one without a statement
\* list, one with a foreign statement, and one in which an older statement
\* with the grant's Sid stands between foreign statements
Policies(sid) ==
    {NoPolicy,
     [present |-> TRUE, doc |-> [Version |-> "2008-10-17"]],
     [present |-> TRUE, doc |-> [Version |-> "2008-10-17",
                                 Statement |-> <<ForeignStatement>>]],
     [present |-> TRUE,
      doc |-> [Version |-> "2008-10-17",
               Statement |-> <<ForeignStatement2, [Sid |-> sid, Effect |-> "Allow"],
                               ForeignStatement>>]]}

InitTargets ==
    /\ event_op = "upsert"
    /\ retrying = FALSE
    /\ eh = FreshEh
    /\ pc = "idle"
    /\ response = NoResponse
    /\ trace = <<>>
    /\ log = <<>>
    /\ fn_policy = [l \in {LambdaArn, LambdaArn2} |-> <<>>]
    /\ \/ /\ cdef = [name |-> "foo", schedule_expression |-> None,
                      event_pattern |-> None, description |-> "d1", role_arn |-> None,
                      tags |-> [a |-> [str |-> "1"]], targets |-> MixedTargets]
          /\ \/ prev_state = EmptyDict /\ rule = NoRule
             \/ /\ prev_state = PrevProps("foo")
                /\ rule \in RemoteRules("foo", {None}, {[b |-> "1"]},
                                        {<<FormatTarget(Target("t1", LambdaArn)),
                                           FormatTarget(Target("t9", OtherArn))>>})
          /\ sns_policy \in [{SnsArn} -> Policies("PublishEventsToMyTopic")]
          /\ sqs_policy \in [{SqsArn} -> Policies("AWSEvents_foo")]
          /\ invocations = 0
          /\ fails = 0
       \/ /\ cdef \in [name : {"foo"}, schedule_expression : {None},
                        event_pattern : {None}, description : {None}, role_arn : {None},
                        tags : {EmptyDict}, targets : RichTargets]
          /\ prev_state = PrevProps("foo")
          /\ rule \in RemoteRules("foo", {None}, {EmptyDict}, {<<>>})
          /\ sns_policy = [t \in {SnsArn} |-> NoPolicy]
          /\ sqs_policy = [q \in {SqsArn} |-> NoPolicy]
          /\ invocations = MaxInvocations - 1
          /\ fails = MaxFails

(***************************************************************************)
(* lambda_handler.                                                         *)
(***************************************************************************)
\* the lines of lambda_handler before the operations are called: the name,
\* and the starting point of an invocation that is not a retry
Preamble(e, op, prev, def, pass_back_data) ==
    LET name == RuleName(prev, def)
        e1 == add_state(e, [name |-> name])
        old_name == Get(prev, "name")
        e2 == add_op(e1, "get_rule", TRUE)
        e3 == add_op(e1, "delete_rule", TRUE)
    IN IF pass_back_data THEN [eh |-> e1, raised |-> None]
       ELSE IF op = "upsert"
       THEN [eh |-> IF old_name # None /\ old_name # name
                    THEN perm_error(e2, "You may not edit the name of the existing rule.", 10)
                    ELSE e2,
             raised |-> None]
       ELSE IF op = "delete"
       THEN IF "name" \in DOMAIN prev
            THEN [eh |-> add_state(e3, [name |-> prev["name"]]), raised |-> None]
            ELSE [eh |-> e3, raised |-> "KeyError"]
       ELSE [eh |-> e1, raised |-> None]

\* a capture that does not load the state of a retry
CaptureEvent_StateLost(e, pass_back_data) ==
    IF pass_back_data
    THEN [e EXCEPT !.ret = "none", !.progress = 0, !.error = None, !.state = EmptyDict]
    ELSE FreshEh

\* eh.capture_event: the handler is reset, and ops, props, links and state
\* are loaded from pass_back_data when the invocation is a retry
CaptureEvent(e, pass_back_data) ==
    IF pass_back_data
    THEN [e EXCEPT !.ret = "none", !.progress = 0, !.error = None]
    ELSE FreshEh

\* a handler that runs the first operation of the queue next
PcAfter_QueueHead(e, i) ==
    IF e.ret = "none" /\ e.ops # <<>> THEN e.ops[1].op ELSE "finish"

\* lambda_handler after position i: the calls of operations that @ext does
\* not run change nothing, so the position moves to the next operation that
\* runs, or to eh.finish() when there is none
PcAfter(e, i) ==
    IF \E j \in DOMAIN OpOrder : j > i /\ Runnable(e, OpOrder[j])
    THEN OpOrder[CHOOSE j \in DOMAIN OpOrder :
                    /\ j > i /\ Runnable(e, OpOrder[j])
                    /\ \A k \in DOMAIN OpOrder : k > i /\ Runnable(e, OpOrder[k]) => j <= k]
    ELSE "finish"

\* the previous states the caller may send with the next invocation: the
\* props of the last successful upsert; after a successful delete nothing, or
\* the same again when the delete is repeated; otherwise what it sent before
NextPrevStates ==
    IF response.kind = "success"
    THEN IF event_op = "upsert" THEN {response.props} ELSE {EmptyDict, prev_state}
    ELSE {prev_state}

Invoke ==
    /\ pc = "idle"
    /\ invocations < MaxInvocations
    /\ invocations' = invocations + 1
    /\ \E op \in {"upsert", "delete"}, prev \in NextPrevStates :
         LET again == response.kind = "retry"
             res == Preamble(CaptureEvent(eh, again), op, prev, cdef, again)
         IN /\ again => op = event_op
            /\ retrying' = again
            /\ event_op' = op
            /\ prev_state' = prev
            /\ trace' = IF again THEN trace ELSE <<>>
            /\ eh' = IF res.raised # None
                     THEN unexpected_error(res.eh, res.raised) ELSE res.eh
            /\ pc' = IF res.raised # None THEN "finish" ELSE PcAfter(eh', 0)
    /\ UNCHANGED <<cdef, rule, fn_policy, sns_policy, sqs_policy, response, log, fails>>

\* the operation body has run: an escaped exception goes to the except
\* clause of lambda_handler, otherwise @ext completes the operation
Complete(op, e, raised, calls) ==
    /\ eh' = IF raised # None THEN unexpected_error(e, raised) ELSE AfterOp(e, op)
    /\ pc' = IF raised # None THEN "finish" ELSE PcAfter(eh', PosOf(op))
    /\ trace' = Append(trace, [inv |-> invocations, op |-> op, val |-> OpVal(eh, op),
                               calls |-> calls, ret |-> eh'.ret, raised |-> raised])

\* n remote calls of the step fail by injection
Inject(n) == fails + n <= MaxFails /\ fails' = fails + n

Injected(outs) == Cardinality({i \in DOMAIN outs : outs[i] # "ok"})

\* the classifications handle_common_errors may give to outcome o, for an
\* operation whose own except clauses handle the codes in handled
Hows(o, handled) == IF o \in handled \cup {"ok"} THEN {"retry"} ELSE {"retry", "perm"}

Frame == UNCHANGED <<cdef, prev_state, event_op, retrying, response, log, invocations>>

GetRule ==
    /\ pc = "get_rule"
    /\ Frame
    /\ Runnable(eh, "get_rule")
    /\ \E d, t, g \in Outcomes :
              \E how \in Hows(t, {"ResourceNotFoundException", "InternalException"})
                         \cup Hows(g, {"ResourceNotFoundException", "InternalException"}) :
                LET res == get_rule(eh, Attributes(prev_state, cdef), rule, prev_state,
                                    d, t, g, how)
                IN /\ Inject(Injected(<<d, t, g>>))
                   /\ Len(res.calls) < 1 => d = "ok"
                   /\ Len(res.calls) < 3 => t = "ok" /\ g = "ok"
                   /\ Complete("get_rule", res.eh, None, res.calls)
                   /\ UNCHANGED <<rule, fn_policy, sns_policy, sqs_policy>>

\* an operation on the rule whose body is res(o, how)
RuleOp(op, handled, res(_, _)) ==
    /\ pc = op
    /\ Frame
    /\ Runnable(eh, op)
    /\ \E o \in Outcomes : \E how \in Hows(o, handled) :
              /\ Inject(Injected(<<o>>))
              /\ Len(res(o, how).calls) < 1 => o = "ok"
              /\ Complete(op, res(o, how).eh, res(o, how).raised, res(o, how).calls)
              /\ rule' = res(o, how).rule
              /\ UNCHANGED <<fn_policy, sns_policy, sqs_policy>>

DeleteRule ==
    RuleOp("delete_rule",
           ErrorCodes \ {"LimitExceededException", "InvalidEventPatternException"},
           LAMBDA o, how : delete_rule(eh, rule, o, how))

CreateRule ==
    RuleOp("create_rule", ErrorCodes,
           LAMBDA o, how : create_rule(eh, Attributes(prev_state, cdef), rule, o, how))

UpdateRule ==
    RuleOp("update_rule", ErrorCodes,
           LAMBDA o, how : update_rule(eh, Attributes(prev_state, cdef), rule,
                                       prev_state, o, how))

RemoveTags ==
    RuleOp("remove_tags",
           ErrorCodes \ {"LimitExceededException", "InvalidEventPatternException"},
           LAMBDA o, how : remove_tags(eh, rule, o, how))

SetTags ==
    RuleOp("set_tags",
           ErrorCodes \ {"LimitExceededException", "InvalidEventPatternException"},
           LAMBDA o, how : set_tags(eh, rule, o, how))

\* error codes of the failed entries of a put_targets or remove_targets response
EntryCodes == {"ConcurrentModificationException", "ManagedRuleException",
               "ResourceNotFoundException", "LimitExceededException"}

\* the FailedEntries a batch call on ids may answer with: none, or an
\* ErrorCode for each of some of the ids
FailedEntries(ids) ==
    UNION {[s -> EntryCodes] : s \in {x \in SUBSET ids : Cardinality(x) <= MaxFailedEntries}}

\* an operation on the targets of the rule whose body is res(o, failed, how)
BatchOp(op, ids, res(_, _, _)) ==
    /\ pc = op
    /\ Frame
    /\ Runnable(eh, op)
    /\ \E o \in Outcomes : \E failed \in FailedEntries(ids) :
            \E how \in Hows(o, ErrorCodes \ {"InvalidEventPatternException"}) :
              /\ o # "ok" => DOMAIN failed = {}
              /\ Inject(IF o # "ok" \/ DOMAIN failed # {} THEN 1 ELSE 0)
              /\ Len(res(o, failed, how).calls) < 1 => o = "ok" /\ DOMAIN failed = {}
              /\ Complete(op, res(o, failed, how).eh, res(o, failed, how).raised,
                          res(o, failed, how).calls)
              /\ rule' = res(o, failed, how).rule
              /\ UNCHANGED <<fn_policy, sns_policy, sqs_policy>>

RemoveTargets ==
    BatchOp("remove_targets",
            IF HasOp(eh, "remove_targets") THEN Range(OpVal(eh, "remove_targets")) ELSE {},
            LAMBDA o, failed, how : remove_targets(eh, rule, o, failed, how))

PutTargets ==
    BatchOp("put_targets",
            IF HasOp(eh, "put_targets")
            THEN {x.Id : x \in Range(OpVal(eh, "put_targets"))} ELSE {},
            LAMBDA o, failed, how : put_targets(eh, rule, o, failed, how))

AddPermissionsForTargets ==
    /\ pc = "add_permissions_for_targets"
    /\ Frame
    /\ Runnable(eh, "add_permissions_for_targets")
    /\ LET res == add_permissions_for_targets(eh)
            IN /\ Complete("add_permissions_for_targets", res.eh, res.raised, <<>>)
               /\ UNCHANGED <<rule, fn_policy, sns_policy, sqs_policy, fails>>

\* outcomes injected into a call of the lambda client (a conflict is the
\* remote's answer to a statement id that exists), and of the sns or sqs client
LambdaOutcomes == {"ok", "ServiceException"}
GrantOutcomes == {"ok", "ResourceConflictException", "ServiceException"}

\* a grant operation with result res: the policies it leaves unchanged are
\* framed by the action that uses it
Grant(op, o, at, res) ==
    /\ o = "ok" => at = 1
    /\ Inject(Injected(<<o>>))
    /\ Complete(op, eh, res.raised, res.calls)
    /\ UNCHANGED rule

AddLambdaPermissions ==
    /\ pc = "add_lambda_permissions"
    /\ Frame
    /\ Runnable(eh, "add_lambda_permissions")
    /\ \E o \in LambdaOutcomes, at \in 1..Len(OpVal(eh, "add_lambda_permissions")) :
              LET res == add_lambda_permissions(eh, fn_policy, o, at)
              IN /\ Grant("add_lambda_permissions", o, at, res)
                 /\ fn_policy' = res.policy
                 /\ UNCHANGED <<sns_policy, sqs_policy>>

AddSnsPermissions ==
    /\ pc = "add_sns_permissions"
    /\ Frame
    /\ Runnable(eh, "add_sns_permissions")
    /\ \E o \in GrantOutcomes, at \in 1..Len(OpVal(eh, "add_sns_permissions")) :
              LET res == add_sns_permissions(eh, sns_policy, o, at)
              IN /\ Grant("add_sns_permissions", o, at, res)
                 /\ sns_policy' = res.policy
                 /\ UNCHANGED <<fn_policy, sqs_policy>>

AddSqsPermissions ==
    /\ pc = "add_sqs_permissions"
    /\ Frame
    /\ Runnable(eh, "add_sqs_permissions")
    /\ \E o \in GrantOutcomes, at \in 1..Len(OpVal(eh, "add_sqs_permissions")) :
              LET res == add_sqs_permissions(eh, sqs_policy, AccountNumber, o, at)
              IN /\ Grant("add_sqs_permissions", o, at, res)
                 /\ sqs_policy' = res.policy
                 /\ UNCHANGED <<fn_policy, sns_policy>>

\* eh.finish(): success with progress 100 unless a return was declared
Finish ==
    /\ pc = "finish"
    /\ response' = [kind |-> IF eh.ret = "none" THEN "success" ELSE eh.ret,
                    progress |-> IF eh.ret = "none" THEN 100 ELSE eh.progress,
                    error |-> eh.error, props |-> eh.props, links |-> eh.links]
    /\ log' = Append(log, [op |-> event_op, kind |-> response'.kind])
    /\ pc' = "idle"
    /\ UNCHANGED <<cdef, prev_state, event_op, retrying, eh, rule, fn_policy,
                   sns_policy, sqs_policy, trace, invocations, fails>>

Next ==
    \/ Invoke
    \/ GetRule
    \/ DeleteRule
    \/ CreateRule
    \/ UpdateRule
    \/ RemoveTags
    \/ SetTags
    \/ RemoveTargets
    \/ PutTargets
    \/ AddPermissionsForTargets
    \/ AddLambdaPermissions
    \/ AddSnsPermissions
    \/ AddSqsPermissions
    \/ Finish

Spec == Init /\ [][Next]_vars

SpecDiff == InitDiff /\ [][Next]_vars

SpecTargets == InitTargets /\ [][Next]_vars

(***************************************************************************)
(* Notions the properties share.                                           *)
(***************************************************************************)
\* the desired tag map, as the remote stores tags
DesiredTagMap == [k \in DOMAIN cdef.tags |-> FmtValue(cdef.tags[k])]

DesiredTargetIds == {cdef.targets[i].id : i \in DOMAIN cdef.targets}

RemoteTargetIds == {rule.targets[i].Id : i \in DOMAIN rule.targets}

\* the remote rule has the desired tags and target ids, and the desired
\* value of every core attribute the desired configuration sets
RemoteMatchesDesired ==
    /\ rule.exists
    /\ Restrict(rule.core, DOMAIN Attributes(prev_state, cdef).core)
           = Attributes(prev_state, cdef).core
    /\ rule.tags = DesiredTagMap
    /\ RemoteTargetIds = DesiredTargetIds

\* an invocation has returned and the next has not started
Returned == pc = "idle" /\ log # <<>>

\* the entries of trace made by the current invocation
Current == {i \in DOMAIN trace : trace[i].inv = invocations}


(***************************************************************************)
(* C1  Convergence.  When an upsert in which no remote call failed has     *)
(* returned success with an empty operation queue, the remote rule's core  *)
(* attributes, tags and target ids equal the desired configuration,        *)
(* whether the rule existed or get_rule queued create_rule.                *)
(***************************************************************************)
C1_Convergence ==
    (/\ Returned
     /\ event_op = "upsert"
     /\ response.kind = "success"
     /\ eh.ops = <<>>
     /\ fails = 0)
    => RemoteMatchesDesired

(***************************************************************************)
(* C2  Idempotence.  In a second upsert, run after a successful upsert     *)
(* with the remote at the desired configuration, get_rule queues no        *)
(* follow-up operation.                                                    *)
(***************************************************************************)
\* get_rule has just run without a failure in an upsert that follows a
\* successful upsert, and the remote is at the desired configuration
SecondRunDiffed ==
    /\ event_op = "upsert"
    /\ ~retrying
    /\ Len(log) >= 1
    /\ log[Len(log)] = [op |-> "upsert", kind |-> "success"]
    /\ Len(trace) = 1
    /\ trace[1].op = "get_rule"
    /\ trace[1].ret = "none"
    /\ fails = 0
    /\ RemoteMatchesDesired

C2_NoFollowUps == SecondRunDiffed => eh.ops = <<>>

\* C2, amended: the second run queues no update_rule, remove_tags, set_tags
\* or remove_targets; it queues put_targets, with one entry for each desired
\* target, exactly when the desired target set is not empty
C2_OnlyPutTargets ==
    SecondRunDiffed =>
        /\ OpNames(eh) \subseteq {"put_targets"}
        /\ HasOp(eh, "put_targets") <=> cdef.targets # <<>>
        /\ HasOp(eh, "put_targets") =>
               {x.Id : x \in Range(OpVal(eh, "put_targets"))} = DesiredTargetIds

C2_Witness ==
    /\ SecondRunDiffed
    /\ cdef.targets # <<>>
    /\ OpNames(eh) = {"put_targets"}

(***************************************************************************)
(* C3  Rename rejection.  An upsert that is not a retry, whose previous    *)
(* state names the rule N and whose definition names it M # N, returns a   *)
(* permanent error; no operation runs and no mutating call is made.        *)
(***************************************************************************)
C3_RenameRejected ==
    (/\ Returned
     /\ event_op = "upsert"
     /\ ~retrying
     /\ fails = 0
     /\ Get(prev_state, "name") # None
     /\ cdef.name # Get(prev_state, "name"))
    => /\ response.kind = "perm"
       /\ trace = <<>>
       /\ eh.ops = <<>>

(***************************************************************************)
(* C4  Retry resumption.  An operation that ends in a retryable failure    *)
(* (a) stays queued with its payload, (b) is the last operation that runs  *)
(* in its invocation, and (c) is the operation at which the next           *)
(* invocation resumes, with the same payload; an operation that completed  *)
(* is not run again in the attempt.                                        *)
(***************************************************************************)
C4_RetryResumption ==
    \A i \in DOMAIN trace :
        /\ trace[i].ret = "retry" /\ i \in Current =>
               /\ i = Len(trace)
               /\ HasOp(eh, trace[i].op)
               /\ OpVal(eh, trace[i].op) = trace[i].val
        /\ trace[i].ret = "retry" /\ i < Len(trace) =>
               /\ trace[i + 1].inv = trace[i].inv + 1
               /\ trace[i + 1].op = trace[i].op
               /\ trace[i + 1].val = trace[i].val
        /\ trace[i].ret = "none" =>
               \A j \in DOMAIN trace : j > i => trace[j].op # trace[i].op

\* an operation completed, the next ended in a retry, and the next
\* invocation ran that operation again
C4_Witness ==
    /\ Len(trace) >= 3
    /\ trace[1].ret = "none"
    /\ trace[2].ret = "retry"
    /\ trace[3].op = trace[2].op
    /\ trace[3].inv = trace[2].inv + 1

(***************************************************************************)
(* C5  A permanent failure stops the reconciliation.  After an operation   *)
(* declares a permanent error no operation runs in the invocation, and the *)
(* response carries the error and asks for no retry.                       *)
(***************************************************************************)
C5_PermanentStops ==
    \A i \in DOMAIN trace :
        trace[i].ret = "perm" =>
            /\ i = Len(trace)
            /\ Returned => /\ response.kind = "perm"
                           /\ response.error # None

C5_Witness ==
    /\ Returned
    /\ Len(trace) >= 2
    /\ trace[Len(trace)].op = "update_rule"
    /\ trace[Len(trace)].ret = "perm"
    /\ Len(eh.ops) >= 2
    /\ response.kind = "perm"

(***************************************************************************)
(* C6  Delete-on-absent.  A delete whose delete_rule call is answered      *)
(* "rule not found" completes delete_rule and returns success, neither a   *)
(* retry nor an error; so does every repetition of it.                     *)
(***************************************************************************)
\* the delete_rule call of trace entry i was answered "not found"
DeleteNotFound(i) ==
    /\ trace[i].op = "delete_rule"
    /\ trace[i].calls = <<Call("delete_rule", "ResourceNotFoundException")>>

C6_DeleteOnAbsent ==
    \A i \in DOMAIN trace :
        DeleteNotFound(i) =>
            /\ trace[i].ret = "none"
            /\ ~HasOp(eh, "delete_rule")
            /\ Returned => response.kind = "success" /\ eh.ops = <<>>

\* a delete of an absent rule that returned success, repeated with the same
\* outcome
C6_Witness ==
    /\ Returned
    /\ log = <<[op |-> "delete", kind |-> "success"], [op |-> "delete", kind |-> "success"]>>
    /\ Len(trace) = 1
    /\ DeleteNotFound(1)
    /\ ~rule.exists
    /\ fails = 0

(***************************************************************************)
(* C7  Target-put partial failure.  When put_targets answers with failed   *)
(* entries, the outcome is a permanent failure if every failed entry says  *)
(* the rule is externally managed, and otherwise, a failed entry having a  *)
(* retryable code, a retry with put_targets left queued with its payload.  *)
(***************************************************************************)
\* the put_targets call of trace entry i was answered with failed entries
PutPartlyFailed(i) ==
    /\ trace[i].op = "put_targets"
    /\ Len(trace[i].calls) = 1
    /\ trace[i].calls[1].out = "FailedEntries"

C7_PartialFailure ==
    \A i \in DOMAIN trace :
        PutPartlyFailed(i) =>
            LET failed == trace[i].calls[1].failed
                payload == {x.Id : x \in Range(trace[i].val)}
            IN /\ (\A id \in DOMAIN failed : failed[id] = "ManagedRuleException")
                       => trace[i].ret = "perm"
               /\ (/\ \E id \in DOMAIN failed :
                          failed[id] = "ConcurrentModificationException"
                    /\ DOMAIN failed # payload)
                       => /\ trace[i].ret = "retry"
                          /\ i \in Current => /\ HasOp(eh, "put_targets")
                                               /\ OpVal(eh, "put_targets") = trace[i].val

(***************************************************************************)
(* C8  Tag diff minimality.  For a non-empty desired tag map D and the     *)
(* observed tag map O, get_rule queues remove_tags with exactly the keys   *)
(* of O that are not in D, if there are any, and set_tags with exactly the *)
(* pairs of D whose key is not in O or has another value in O, if there    *)
(* are any.                                                                *)
(***************************************************************************)
\* get_rule has just run on an existing rule, and both listings succeeded
Diffed ==
    /\ Len(trace) = 1
    /\ trace[1].op = "get_rule"
    /\ Len(trace[1].calls) = 3
    /\ \A c \in DOMAIN trace[1].calls : trace[1].calls[c].out = "ok"

C8_TagDiffMinimal ==
    (Diffed /\ DOMAIN DesiredTagMap # {}) =>
        LET D == DesiredTagMap
            O == rule.tags
            stale == DOMAIN O \ DOMAIN D
            changed == {k \in DOMAIN D : k \notin DOMAIN O \/ O[k] # D[k]}
        IN /\ HasOp(eh, "remove_tags") <=> stale # {}
           /\ HasOp(eh, "remove_tags") => OpVal(eh, "remove_tags") = stale
           /\ HasOp(eh, "set_tags") <=> changed # {}
           /\ HasOp(eh, "set_tags") => OpVal(eh, "set_tags") = [k \in changed |-> D[k]]

\* a key with the same value in D and O, a stale key and a changed key
C8_Witness ==
    /\ Diffed
    /\ \E k \in DOMAIN DesiredTagMap :
           k \in DOMAIN rule.tags /\ rule.tags[k] = DesiredTagMap[k]
    /\ HasOp(eh, "remove_tags")
    /\ HasOp(eh, "set_tags")
    /\ DOMAIN OpVal(eh, "set_tags") # DOMAIN DesiredTagMap

(***************************************************************************)
(* C9  Target replace-all.  For the desired targets T and the observed     *)
(* targets R of an existing rule, get_rule queues remove_targets with      *)
(* exactly the observed ids that are not in T, if there are any, and       *)
(* put_targets with one built entry for every id of T, those in R          *)
(* included; the two id sets are disjoint.                                 *)
(***************************************************************************)
C9_TargetReplaceAll ==
    Diffed =>
        LET stale == RemoteTargetIds \ DesiredTargetIds
            removed == IF HasOp(eh, "remove_targets")
                       THEN Range(OpVal(eh, "remove_targets")) ELSE {}
            put == IF HasOp(eh, "put_targets") THEN OpVal(eh, "put_targets") ELSE <<>>
        IN /\ HasOp(eh, "remove_targets") <=> stale # {}
           /\ removed = stale
           /\ put = [i \in DOMAIN cdef.targets |-> FormatTarget(cdef.targets[i])]
           /\ removed \cap {x.Id : x \in Range(put)} = {}

\* a desired target that is observed is put again, and a stale one removed
C9_Witness ==
    /\ Diffed
    /\ HasOp(eh, "remove_targets")
    /\ HasOp(eh, "put_targets")
    /\ \E x \in Range(OpVal(eh, "put_targets")) : x.Id \in RemoteTargetIds
    /\ \E x \in Range(OpVal(eh, "put_targets")) : x.Id \notin RemoteTargetIds

(***************************************************************************)
(* C10  Permission grant idempotence for functions.  However often         *)
(* add_lambda_permissions runs for a function and a rule, the function     *)
(* has one statement EB_INVOKE_<rule name>; a grant the remote answers     *)
(* with ResourceConflictException is a success: the operation completes    *)
(* and no retry or error is declared.                                      *)
(***************************************************************************)
Count(q, x) == Cardinality({i \in DOMAIN q : q[i] = x})

\* the add_permission calls of trace entry i were granted or in conflict
Granted(i) ==
    /\ trace[i].op = "add_lambda_permissions"
    /\ \A c \in DOMAIN trace[i].calls :
           trace[i].calls[c].out \in {"ok", "ResourceConflictException"}

C10_LambdaGrantIdempotent ==
    \A i \in DOMAIN trace :
        Granted(i) =>
            /\ trace[i].ret = "none"
            /\ \A l \in Range(trace[i].val) :
                   Count(fn_policy[l], "EB_INVOKE_" \o eh.state["name"]) = 1

\* the second grant for the function, answered with a conflict, completed
C10_Witness ==
    /\ Len(log) >= 1
    /\ \E i \in DOMAIN trace :
           /\ Granted(i)
           /\ trace[i].calls = <<Call("add_permission", "ResourceConflictException")>>
           /\ trace[i].ret = "none"
           /\ Count(fn_policy[LambdaArn], "EB_INVOKE_" \o eh.state["name"]) = 1

(***************************************************************************)
(* C11  Nothing escapes the invocation.  Every invocation runs to its      *)
(* return: the handler is only ever at an operation that runs, and each of *)
(* its steps moves it forward in the sequence of calls until eh.finish()   *)
(* returns the response.  When an exception escaped the preamble or an     *)
(* operation, the response is a failure that is not a retry, with progress *)
(* 0 and the exception as its error.                                       *)
(***************************************************************************)
\* the exception that escaped in the invocation that has just returned, or None
Escaped ==
    IF event_op = "delete" /\ ~retrying /\ "name" \notin DOMAIN prev_state
    THEN "KeyError"
    ELSE IF trace # <<>> /\ trace[Len(trace)].inv = invocations
    THEN trace[Len(trace)].raised
    ELSE None

EscapedReported ==
    (Returned /\ Escaped # None) =>
        /\ response.kind = "error"
        /\ response.progress = 0
        /\ response.error = Escaped

\* how far lambda_handler is
Position(p) ==
    CASE p = "idle" -> 0
      [] p = "finish" -> Len(OpOrder) + 1
      [] OTHER -> PosOf(p)

Advances ==
    pc # "idle" =>
        IF pc = "finish" THEN pc' = "idle" /\ response'.kind # "none"
        ELSE Position(pc') > Position(pc)

C11_NothingEscapes ==
    /\ [](pc \notin {"idle", "finish"} => Runnable(eh, pc))
    /\ [][Advances]_vars
    /\ []EscapedReported

\* an operation raised an unbound local name, and the invocation returned
C11_Witness ==
    /\ Returned
    /\ Escaped = "UnboundLocalError"
    /\ response.kind = "error"

(***************************************************************************)
(* C12  Transient remote errors are retried.  When a remote call of an     *)
(* operation is answered with an internal error or a concurrent            *)
(* modification, the operation ends in a retry and stays queued, and       *)
(* create_rule is not queued on account of it.  (The two listings of       *)
(* get_rule hand a concurrent modification to handle_common_errors, whose  *)
(* classification is not in this repository: they are left out.)           *)
(***************************************************************************)
TransientCodes == {"InternalException", "ConcurrentModificationException"}

\* call c of trace entry i was answered with a transient error that the
\* operation's own except clauses classify
TransientFailure(i, c) ==
    /\ trace[i].calls[c].out \in TransientCodes
    /\ ~ /\ trace[i].calls[c].api \in {"list_tags_for_resource", "list_targets_by_rule"}
         /\ trace[i].calls[c].out = "ConcurrentModificationException"

C12_TransientRetried ==
    \A i \in DOMAIN trace : \A c \in DOMAIN trace[i].calls :
        TransientFailure(i, c) =>
            /\ trace[i].ret = "retry"
            /\ i = Len(trace) =>
                   /\ HasOp(eh, trace[i].op)
                   /\ trace[i].op # "create_rule" => ~HasOp(eh, "create_rule")

(***************************************************************************)
(* C13  Quota errors are permanent.  When the remote reports that a limit  *)
(* is exceeded, as the exception of create_rule, update_rule, put_targets  *)
(* or remove_targets or as the ErrorCode of a failed entry of a            *)
(* put_targets response, the operation declares a permanent error.         *)
(***************************************************************************)
\* the remote reported a quota condition to the operation of trace entry i
QuotaReported(i) ==
    /\ trace[i].op \in {"create_rule", "update_rule", "put_targets", "remove_targets"}
    /\ \E c \in DOMAIN trace[i].calls :
           \/ trace[i].calls[c].out = "LimitExceededException"
           \/ /\ trace[i].op = "put_targets"
              /\ trace[i].calls[c].out = "FailedEntries"
              /\ \E id \in DOMAIN trace[i].calls[c].failed :
                     trace[i].calls[c].failed[id] = "LimitExceededException"

C13_QuotaPermanent ==
    \A i \in DOMAIN trace :
        QuotaReported(i) =>
            /\ trace[i].ret = "perm"
            /\ (Returned /\ i = Len(trace)) =>
                   response.kind = "perm" /\ response.error = "LimitExceededException"

(***************************************************************************)
(* C14  Exposed identity on success.  An upsert that returned success      *)
(* exposes the props arn, name, role_arn and event_bus_name and the link   *)
(* Rule; name is the name of the remote rule that get_rule described or    *)
(* put_rule wrote, and arn is the handle the remote has for that rule.     *)
(***************************************************************************)
C14_ExposedIdentity ==
    (Returned /\ event_op = "upsert" /\ response.kind = "success") =>
        /\ DOMAIN response.props = {"arn", "name", "role_arn", "event_bus_name"}
        /\ DOMAIN response.links = {"Rule"}
        /\ rule.exists
        /\ response.props["name"] = rule.core["Name"]
        /\ response.props["arn"] = DescribeResponse(rule)["Arn"]
        /\ response.props["event_bus_name"] = DescribeResponse(rule)["EventBusName"]
        /\ response.links["Rule"]
               = gen_rule_link(Region, rule.core["Name"], response.props["event_bus_name"])

\* a success whose props were set by create_rule, and one whose props were
\* set by get_rule in the invocation before the retry that succeeded
C14_Witness ==
    /\ Returned /\ event_op = "upsert" /\ response.kind = "success"
    /\ \/ \E i \in DOMAIN trace : trace[i].op = "create_rule" /\ trace[i].ret = "none"
       \/ /\ retrying
          /\ \E i \in DOMAIN trace :
                 trace[i].op = "get_rule" /\ trace[i].inv < invocations

(***************************************************************************)
(* C15  Queue drained on success.  An invocation that returned success     *)
(* left the operation queue empty; and an invocation that is not a retry,  *)
(* in which no exception escaped and every remote call was answered        *)
(* without an error, returned success with the queue empty, every          *)
(* operation appended on the way having run in that invocation.            *)
(***************************************************************************)
\* every remote call of the attempt was answered without an error (not
\* found is the answer of describe_rule for an absent rule, and a conflict
\* the answer to a repeated grant on a function)
NoRemoteFailure ==
    \A i \in DOMAIN trace : \A c \in DOMAIN trace[i].calls :
        \/ trace[i].calls[c].out = "ok"
        \/ /\ trace[i].calls[c].api = "describe_rule"
           /\ trace[i].calls[c].out = "ResourceNotFoundException"
        \/ /\ trace[i].op = "add_lambda_permissions"
           /\ trace[i].calls[c].out = "ResourceConflictException"

GrantOps == {"add_lambda_permissions", "add_sns_permissions", "add_sqs_permissions"}

\* operation a has to run before operation b
MustPrecede(a, b) ==
    \/ a = "create_rule" /\ b \in {"update_rule", "remove_tags", "set_tags",
                                   "remove_targets", "put_targets"}
    \/ a = "remove_targets" /\ b = "put_targets"
    \/ a = "put_targets" /\ b = "add_permissions_for_targets"
    \/ a = "add_permissions_for_targets" /\ b \in GrantOps

C16_DependencyOrder ==
    \A i, j \in DOMAIN trace :
        i < j => ~MustPrecede(trace[j].op, trace[i].op)

\* remove_targets, then put_targets retried in the next invocation, then the
\* propagation and a grant
C16_Witness ==
    /\ \E i, j, k \in DOMAIN trace :
           /\ i < j /\ j < k
           /\ trace[i].op = "remove_targets"
           /\ trace[j].op = "put_targets" /\ trace[j].ret = "retry"
           /\ trace[k].op = "put_targets" /\ trace[k].inv = trace[j].inv + 1
    /\ trace[Len(trace)].op \in GrantOps

(***************************************************************************)
(* C17  Execution order within an invocation.  As claimed: the operation   *)
(* the handler runs next is the one appended to the queue first            *)
(* (C17_QueueOrder).  What holds: the operations of an invocation run one  *)
(* at a time in the fixed order in which lambda_handler calls them,        *)
(* whatever the order in which they were appended (C17_CallOrder).         *)
(***************************************************************************)
C17_QueueOrder ==
    pc \notin {"idle", "finish"} => eh.ops[1].op = pc

C17_CallOrder ==
    /\ \A i, j \in DOMAIN trace :
           (i < j /\ trace[i].inv = trace[j].inv)
               => PosOf(trace[i].op) < PosOf(trace[j].op)
    /\ pc \notin {"idle", "finish"} =>
           /\ HasOp(eh, pc)
           /\ \A op \in OpNames(eh) : PosOf(pc) <= PosOf(op)

\* the handler is about to run an operation that was appended after one
\* that is still queued
C17_Witness ==
    /\ pc \notin {"idle", "finish"}
    /\ eh.ops[1].op # pc
    /\ trace # <<>> /\ trace[Len(trace)].inv = invocations

(***************************************************************************)
(* C18  Permission propagation only after a successful target put.         *)
(* add_permissions_for_targets is queued, and it and the grant operations  *)
(* run, only after a put_targets of the same invocation that the remote    *)
(* accepted in full; a put_targets that ended otherwise leaves no          *)
(* permission operation in the queue.                                      *)
(***************************************************************************)
PermissionOps == GrantOps \cup {"add_permissions_for_targets"}

\* trace entry i is a put_targets that the remote accepted in full
PutAccepted(i) ==
    /\ trace[i].op = "put_targets"
    /\ trace[i].calls = <<Call("put_targets", "ok")>>
    /\ trace[i].ret = "none"

C18_PropagationAfterPut ==
    /\ \A j \in DOMAIN trace :
           trace[j].op \in PermissionOps =>
               \E i \in DOMAIN trace :
                   i < j /\ PutAccepted(i) /\ trace[i].inv = trace[j].inv
    /\ OpNames(eh) \cap PermissionOps # {} =>
           \E i \in DOMAIN trace : PutAccepted(i) /\ trace[i].inv = invocations
    /\ \A i \in DOMAIN trace :
           (trace[i].op = "put_targets" /\ ~PutAccepted(i) /\ i = Len(trace))
               => OpNames(eh) \cap PermissionOps = {}

\* a put_targets that was retried, accepted in the next invocation and
\* followed by the propagation
C18_Witness ==
    \E i, j, k \in DOMAIN trace :
        /\ i < j /\ j < k
        /\ trace[i].op = "put_targets" /\ trace[i].ret = "retry"
        /\ PutAccepted(j) /\ trace[j].inv = trace[i].inv + 1
        /\ trace[k].op = "add_permissions_for_targets"

(***************************************************************************)
(* C19  Rule-absent edge case.  get_rule queues create_rule only when the  *)
(* remote rule does not exist, and then nothing else is queued; when the   *)
(* rule does not exist and get_rule declared no retry, create_rule is      *)
(* queued.                                                                 *)
(***************************************************************************)
\* get_rule is the operation that ran last
GetRuleRan ==
    /\ trace # <<>>
    /\ trace[Len(trace)].op = "get_rule"
    /\ trace[Len(trace)].inv = invocations

C19_CreateOnlyWhenAbsent ==
    GetRuleRan =>
        /\ HasOp(eh, "create_rule") => ~rule.exists /\ OpNames(eh) = {"create_rule"}
        /\ (~rule.exists /\ eh.ret = "none") => HasOp(eh, "create_rule")

(***************************************************************************)
(* C20  Core-attribute diff.  As claimed: for an existing rule, get_rule   *)
(* queues update_rule exactly when the desired and the observed core       *)
(* fields differ, a field that only the observed rule carries included     *)
(* (C20_CoreDiff).  What holds: it queues update_rule exactly when the     *)
(* observed rule, restricted to the core fields the desired configuration  *)
(* sets, differs from the desired core fields (C20_CoreDiffOnDesiredKeys). *)
(***************************************************************************)
C20_CoreDiff ==
    Diffed =>
        (HasOp(eh, "update_rule") <=> rule.core # Attributes(prev_state, cdef).core)

C20_CoreDiffOnDesiredKeys ==
    Diffed =>
        LET desired == Attributes(prev_state, cdef).core
        IN HasOp(eh, "update_rule") <=> Restrict(rule.core, DOMAIN desired) # desired

\* the observed rule has a description, the desired configuration has none,
\* and update_rule is not queued
C20_Witness ==
    /\ Diffed
    /\ "Description" \in DOMAIN rule.core
    /\ "Description" \notin DOMAIN Attributes(prev_state, cdef).core
    /\ ~HasOp(eh, "update_rule")

(***************************************************************************)
(* C21  Tag convergence.  For every desired tag map D, the empty one       *)
(* included, and every observed tag map O of an existing rule, removing    *)
(* the keys of the queued remove_tags payload from O and then writing the  *)
(* pairs of the queued set_tags payload gives exactly D; when D is empty   *)
(* and O is not, remove_tags is queued with every key of O and set_tags    *)
(* is not queued.                                                          *)
(***************************************************************************)
C21_TagConvergence ==
    Diffed =>
        LET D == DesiredTagMap
            O == rule.tags
            removed == IF HasOp(eh, "remove_tags") THEN OpVal(eh, "remove_tags") ELSE {}
            added == IF HasOp(eh, "set_tags") THEN OpVal(eh, "set_tags") ELSE EmptyDict
        IN /\ RemoteTag(RemoteUntag(rule, removed), added).tags = D
           /\ (DOMAIN D = {} /\ DOMAIN O # {}) =>
                  /\ HasOp(eh, "remove_tags")
                  /\ OpVal(eh, "remove_tags") = DOMAIN O
                  /\ ~HasOp(eh, "set_tags")

\* no desired tag, and two observed tags to remove
C21_Witness ==
    /\ Diffed
    /\ DOMAIN DesiredTagMap = {}
    /\ Cardinality(DOMAIN rule.tags) >= 2
    /\ HasOp(eh, "remove_tags")
    /\ ~HasOp(eh, "set_tags")

(***************************************************************************)
(* C22  Facet independence in get_rule.  When the listing of the tags of   *)
(* an existing rule fails, the target facet is diffed all the same in the  *)
(* same invocation: remove_targets and put_targets are queued as the       *)
(* target diff asks, and update_rule stays queued if the core facet        *)
(* queued it.  When the listing of the targets fails, the tag operations   *)
(* and update_rule queued before it stay queued.                           *)
(***************************************************************************)
\* get_rule of the first invocation described the rule, and of its two
\* listings only call c failed
FacetFailed(c) ==
    /\ invocations = 1
    /\ Len(trace) = 1
    /\ trace[1].op = "get_rule"
    /\ Len(trace[1].calls) = 3
    /\ \A k \in 1..3 : (trace[1].calls[k].out = "ok") <=> (k # c)

\* update_rule is queued exactly if a desired core attribute differs
CoreOpsQueued ==
    LET desired == Attributes(prev_state, cdef).core
    IN HasOp(eh, "update_rule") <=> Restrict(rule.core, DOMAIN desired) # desired

\* the tag operations queued are those of the tag diff
TagOpsQueued ==
    LET D == DesiredTagMap
        O == rule.tags
        stale == DOMAIN O \ DOMAIN D
        changed == {k \in DOMAIN D : k \notin DOMAIN O \/ O[k] # D[k]}
    IN /\ HasOp(eh, "remove_tags") <=> stale # {}
       /\ HasOp(eh, "remove_tags") => OpVal(eh, "remove_tags") = stale
       /\ HasOp(eh, "set_tags") <=> changed # {}
       /\ HasOp(eh, "set_tags") => OpVal(eh, "set_tags") = [k \in changed |-> D[k]]

\* the target operations queued are those of the target diff
TargetOpsQueued ==
    LET stale == RemoteTargetIds \ DesiredTargetIds
    IN /\ HasOp(eh, "remove_targets") <=> stale # {}
       /\ HasOp(eh, "remove_targets") => Range(OpVal(eh, "remove_targets")) = stale
       /\ HasOp(eh, "put_targets") <=> cdef.targets # <<>>
       /\ HasOp(eh, "put_targets") =>
              OpVal(eh, "put_targets")
                  = [i \in DOMAIN cdef.targets |-> FormatTarget(cdef.targets[i])]

C22_FacetIndependence ==
    /\ FacetFailed(2) =>
           /\ eh.ret \in {"retry", "perm"}
           /\ CoreOpsQueued
           /\ TargetOpsQueued
           /\ ~HasOp(eh, "remove_tags") /\ ~HasOp(eh, "set_tags")
    /\ FacetFailed(3) =>
           /\ eh.ret \in {"retry", "perm"}
           /\ CoreOpsQueued
           /\ TagOpsQueued
           /\ ~HasOp(eh, "remove_targets") /\ ~HasOp(eh, "put_targets")

\* the tag listing failed with InternalException, and update_rule,
\* remove_targets and put_targets are queued behind the retry
C22_Witness ==
    /\ FacetFailed(2)
    /\ trace[1].calls[2].out = "InternalException"
    /\ eh.ret = "retry"
    /\ HasOp(eh, "update_rule")
    /\ HasOp(eh, "remove_targets")
    /\ HasOp(eh, "put_targets")

(***************************************************************************)
(* C23  Resumption markers per facet.  The claim: the retry reported when  *)
(* the tag facet fails carries a marker different from the one reported    *)
(* when the target facet fails with the same kind of remote error, and     *)
(* the next invocation fetches and diffs again only the facet that         *)
(* failed.                                                                 *)
(***************************************************************************)
\* the remote errors that the two listings of get_rule classify themselves
FacetCodes == {"ResourceNotFoundException", "InternalException"}

\* the message of the retry the target facet declares for the remote error x
TargetFacetMarker(x) ==
    TargetFacet(FreshEh, Attributes(prev_state, cdef), <<>>, x, "retry").error

\* the message of the retry the tag facet declares for the remote error x
TagFacetMarker(x) ==
    TagFacet(FreshEh, Attributes(prev_state, cdef), EmptyDict, x, "retry").error

\* trace entry i is a get_rule that follows, in the next invocation, a
\* get_rule of which only listing c failed, with an error of FacetCodes
Refetch(i, c) ==
    /\ i > 1
    /\ trace[i].op = "get_rule" /\ trace[i - 1].op = "get_rule"
    /\ trace[i].inv = trace[i - 1].inv + 1
    /\ Len(trace[i - 1].calls) = 3
    /\ trace[i - 1].calls[c].out \in FacetCodes
    /\ \A k \in 1..3 : (trace[i - 1].calls[k].out = "ok") <=> (k # c)

Apis(i) == {trace[i].calls[k].api : k \in DOMAIN trace[i].calls}

RemovePartlyFailed(i) ==
    /\ trace[i].op = "remove_targets"
    /\ Len(trace[i].calls) = 1
    /\ trace[i].calls[1].out = "FailedEntries"

C24_RemovalPartialFailure ==
    \A i \in DOMAIN trace :
        RemovePartlyFailed(i) =>
            LET failed == trace[i].calls[1].failed
                all(code) == \A id \in DOMAIN failed : failed[id] = code
            IN /\ all("ResourceNotFoundException") =>
                      /\ trace[i].ret = "none"
                      /\ trace[i].raised = None
                      /\ i = Len(trace) => ~HasOp(eh, "remove_targets")
               /\ all("ManagedRuleException") => trace[i].ret = "perm"
               /\ (~all("ResourceNotFoundException") /\ ~all("ManagedRuleException")) =>
                      /\ trace[i].ret = "retry"
                      /\ i \in Current => /\ HasOp(eh, "remove_targets")
                                           /\ OpVal(eh, "remove_targets") = trace[i].val

(***************************************************************************)
(* C25  A policy grant is the upsert of one statement, and keeps           *)
(* everything else.  Whenever add_sns_permissions or add_sqs_permissions   *)
(* runs, the first time or again, the policy it writes to a destination    *)
(* has exactly one statement with the grant's Sid (PublishEventsToMyTopic  *)
(* for a topic, AWSEvents_<rule name> for a queue), which is the new       *)
(* grant and is the last statement; every statement that was there with    *)
(* another Sid is there unchanged, in the same relative order, and the     *)
(* other keys of the policy are unchanged.                                 *)
(***************************************************************************)
StatementsOf(p) ==
    IF p.present /\ "Statement" \in DOMAIN p.doc THEN p.doc["Statement"] ELSE <<>>

Others(statements, sid) == SelectSeq(statements, LAMBDA x : x.Sid # sid)

\* new is old with the statement grant upserted
Upserted(old, new, grant) ==
    LET before == StatementsOf(old)
        after == StatementsOf(new)
    IN /\ new.present
       /\ after # <<>>
       /\ after[Len(after)] = grant
       /\ Cardinality({i \in DOMAIN after : after[i].Sid = grant.Sid}) = 1
       /\ Others(after, grant.Sid) = Others(before, grant.Sid)
       /\ Restrict(new.doc, DOMAIN new.doc \ {"Statement"})
              = Restrict(LoadPolicy(old), DOMAIN LoadPolicy(old) \ {"Statement"})

\* the step runs the grant operation op to its end: nothing is raised and
\* every remote call is answered
GrantStep(op) ==
    /\ pc = op
    /\ trace' # trace
    /\ trace'[Len(trace')].op = op
    /\ trace'[Len(trace')].raised = None
    /\ \A c \in DOMAIN trace'[Len(trace')].calls :
           trace'[Len(trace')].calls[c].out = "ok"

SnsUpsert ==
    GrantStep("add_sns_permissions") =>
        \A t \in Range(OpVal(eh, "add_sns_permissions")) :
            Upserted(sns_policy[t], sns_policy'[t], SnsStatement(t))

SqsUpsert ==
    GrantStep("add_sqs_permissions") =>
        \A q \in Range(OpVal(eh, "add_sqs_permissions")) :
            Upserted(sqs_policy[q], sqs_policy'[q],
                     SqsStatement(q, "arn:aws:events:" \o Region \o ":" \o AccountNumber
                                         \o ":rule/" \o DefaultBus \o "/" \o eh.state["name"],
                                  eh.state["name"]))

C25_PolicyUpsert == [][SnsUpsert /\ SqsUpsert]_vars

\* the second successful upsert in a row has granted again: the function
\* answered with a conflict, and the topic and the queue, which had an older
\* statement with the grant's Sid between two foreign ones, have the two
\* foreign statements and then the grant
C25_Witness ==
    /\ invocations = 2
    /\ log # <<>>
    /\ log[1] = [op |-> "upsert", kind |-> "success"]
    /\ \E i \in DOMAIN trace :
           /\ trace[i].op = "add_lambda_permissions"
           /\ trace[i].calls # <<>>
           /\ trace[i].calls[1].out = "ResourceConflictException"
    /\ trace # <<>>
    /\ trace[Len(trace)].op = "add_sqs_permissions"
    /\ trace[Len(trace)].raised = None
    /\ StatementsOf(sns_policy[SnsArn])
           = <<ForeignStatement2, ForeignStatement, SnsStatement(SnsArn)>>
    /\ Len(StatementsOf(sqs_policy[SqsArn])) = 3
    /\ StatementsOf(sqs_policy[SqsArn])[3].Sid = "AWSEvents_foo"
    /\ StatementsOf(sqs_policy[SqsArn])[3].Resource = SqsArn

(***************************************************************************)
(* C26  Grant on a destination without a policy.  When the topic or the    *)
(* queue has no access policy, or a policy with no statement list,         *)
(* add_sns_permissions and add_sqs_permissions succeed all the same: they  *)
(* start from an empty policy and write back a policy whose statement      *)
(* list is exactly the one new grant; no error is raised.                  *)
(***************************************************************************)
\* the step runs the grant operation op, and no remote call of it fails
GrantRuns(op) ==
    /\ pc = op
    /\ trace' # trace
    /\ trace'[Len(trace')].op = op
    /\ fails' = fails

NoStatementList(p) == ~p.present \/ "Statement" \notin DOMAIN p.doc

C26_GrantWithoutPolicy ==
    [][/\ (/\ GrantRuns("add_sns_permissions")
           /\ \A t \in Range(OpVal(eh, "add_sns_permissions")) :
                  NoStatementList(sns_policy[t])) =>
              /\ trace'[Len(trace')].raised = None
              /\ \A t \in Range(OpVal(eh, "add_sns_permissions")) :
                     StatementsOf(sns_policy'[t]) = <<SnsStatement(t)>>
       /\ (/\ GrantRuns("add_sqs_permissions")
           /\ \A q \in Range(OpVal(eh, "add_sqs_permissions")) :
                  NoStatementList(sqs_policy[q])) =>
              /\ trace'[Len(trace')].raised = None
              /\ \A q \in Range(OpVal(eh, "add_sqs_permissions")) :
                     /\ Len(StatementsOf(sqs_policy'[q])) = 1
                     /\ StatementsOf(sqs_policy'[q])[1].Sid
                            = "AWSEvents_" \o eh.state["name"]
                     /\ StatementsOf(sqs_policy'[q])[1].Resource = q]_vars

(***************************************************************************)
(* C27  Permission grouping by destination kind.  For a put_targets        *)
(* payload, add_permissions_for_targets queues add_lambda_permissions      *)
(* with exactly the handles that begin with arn:aws:lambda,                *)
(* add_sns_permissions with those that begin with arn:aws:sns and          *)
(* add_sqs_permissions with those that begin with arn:aws:sqs, each in     *)
(* payload order; a kind with no target gets no operation, and a target    *)
(* of any other kind is in no payload.                                     *)
(***************************************************************************)
\* add_permissions_for_targets has just run
Grouped ==
    /\ trace # <<>>
    /\ trace[Len(trace)].op = "add_permissions_for_targets"
    /\ trace[Len(trace)].raised = None
    /\ trace[Len(trace)].inv = invocations
    /\ pc # "idle"

\* the handles of payload that begin with arn:aws:<kind>, in payload order
HandlesOfKind(payload, kind) ==
    LET sel == SelectSeq(payload, LAMBDA x : /\ Len(x.Arn) >= 3
                                             /\ x.Arn[1] = "arn" /\ x.Arn[2] = "aws"
                                             /\ x.Arn[3] = kind)
    IN [i \in DOMAIN sel |-> sel[i].Arn]

GroupedAs(op, kind) ==
    LET handles == HandlesOfKind(trace[Len(trace)].val, kind)
    IN /\ HasOp(eh, op) <=> handles # <<>>
       /\ HasOp(eh, op) => OpVal(eh, op) = handles

C27_GroupingByKind ==
    Grouped =>
        /\ GroupedAs("add_lambda_permissions", "lambda")
        /\ GroupedAs("add_sns_permissions", "sns")
        /\ GroupedAs("add_sqs_permissions", "sqs")
        /\ \A op \in {"add_lambda_permissions", "add_sns_permissions",
                      "add_sqs_permissions"} :
               HasOp(eh, op) => OtherArn \notin Range(OpVal(eh, op))

\* two functions with a topic between them, a queue and a target of
\* another kind
C27_Witness ==
    /\ Grouped
    /\ \E x \in Range(trace[Len(trace)].val) : x.Arn = OtherArn
    /\ HasOp(eh, "add_lambda_permissions")
    /\ OpVal(eh, "add_lambda_permissions") = <<LambdaArn, LambdaArn2>>
    /\ HasOp(eh, "add_sns_permissions")
    /\ HasOp(eh, "add_sqs_permissions")

(***************************************************************************)
(* C28  Identity recorded before it is read.  Whenever update_rule,        *)
(* remove_tags, set_tags, remove_targets, put_targets,                     *)
(* add_permissions_for_targets, add_lambda_permissions,                    *)
(* add_sqs_permissions or delete_rule runs, every state field it reads     *)
(* (name, arn, role_arn, event_bus_name, region) has been stored by the    *)
(* preamble, by get_rule or by create_rule in this attempt, a resumed      *)
(* invocation included: none of them fails on a missing field.             *)
(***************************************************************************)
\* the state fields the operation reads
Reads(op) ==
    CASE op = "update_rule" -> {"name", "role_arn", "event_bus_name"}
      [] op \in {"remove_tags", "set_tags"} -> {"arn"}
      [] op = "put_targets" -> {"name"}
      [] op \in {"remove_targets", "add_permissions_for_targets"} ->
             {"name", "event_bus_name"}
      [] op = "add_lambda_permissions" -> {"name", "arn"}
      [] op = "add_sqs_permissions" -> {"region", "name", "event_bus_name"}
      [] op = "delete_rule" -> {"name"}
      [] OTHER -> {}

C28_IdentityBeforeRead ==
    /\ pc \notin {"idle", "finish"} => Reads(pc) \subseteq DOMAIN eh.state
    /\ \A i \in DOMAIN trace : trace[i].raised # "KeyError"

\* a resumed invocation is about to run add_sqs_permissions
C28_Witness ==
    /\ retrying
    /\ pc = "add_sqs_permissions"
    /\ {"region", "name", "event_bus_name"} \subseteq DOMAIN eh.state

(***************************************************************************)
(* C29  Nested target fields.  In every entry built for put_targets, the   *)
(* HttpParameters block and the RetryPolicy block are present only if at   *)
(* least one of their sub-fields has a value, so that no entry holds an    *)
(* empty block, and every optional field that is absent is left out        *)
(* rather than sent as null.                                               *)
(***************************************************************************)
\* the desired target from which the entry with the given Id is built
DesiredTarget(id) ==
    cdef.targets[CHOOSE i \in DOMAIN cdef.targets : cdef.targets[i].id = id]

HasValue(item, keys) == \E k \in keys \cap DOMAIN item : item[k] # None

WellBuilt(x) ==
    LET item == DesiredTarget(x.Id)
    IN /\ "HttpParameters" \in DOMAIN x <=> HasValue(item, HttpKeys)
       /\ "HttpParameters" \in DOMAIN x =>
              /\ DOMAIN x["HttpParameters"] # {}
              /\ \A k \in DOMAIN x["HttpParameters"] : x["HttpParameters"][k] # None
       /\ "RetryPolicy" \in DOMAIN x <=> HasValue(item, RetryKeys)
       /\ "RetryPolicy" \in DOMAIN x =>
              /\ DOMAIN x["RetryPolicy"] # {}
              /\ \A k \in DOMAIN x["RetryPolicy"] : x["RetryPolicy"][k] # None
       /\ "DeadLetterConfig" \in DOMAIN x <=> HasValue(item, {"dead_letter_queue_arn"})
       /\ \A k \in DOMAIN x \cap {"RoleArn", "Input", "InputPath"} : x[k] # None

C29_NestedTargetFields ==
    HasOp(eh, "put_targets") =>
        \A x \in Range(OpVal(eh, "put_targets")) : WellBuilt(x)

====
